---- MODULE Spec2Model ----
(***************************************************************************)
(* Word-Frequency tracker: the tokenizer of WordInput.processWords, the   *)
(* word store of lib/supabase (addOrUpdateWord, the concurrent batch,      *)
(* getAllWords, updateWordDetails, getWordById) over the `words` table,    *)
(* and the staleness check of services/dictionaryApi.                      *)
(*                                                                         *)
(* Optional values (null / undefined / omitted) are sequences of length    *)
(* at most one: Null is <<>>, a present value v is <<v>>.  Texts and words *)
(* are sequences of characters, each a string.  Times are milliseconds.    *)
(***************************************************************************)
EXTENDS Integers, Sequences, FiniteSets, TLC

VARIABLES
  table,      \* the rows of public.words, in insertion order (id = position)
  batches,    \* the addOrUpdateWordsConcurrently calls made so far
  allWords,   \* outcome of the latest getAllWords call
  upd,        \* the updateWordDetails calls made so far
  byId,       \* outcome of the latest getWordById call
  now,        \* the wall clock, in milliseconds
  ticks,      \* number of clock advances so far
  tokIn,      \* the tokenizer on its own: the input text
  tokOut,     \* the tokenizer on its own: the tokens, once computed
  stIn,       \* the staleness check on its own: lastFetchedAt, maxAgeHours, the clock
  stOut,      \* the staleness check on its own: the verdict, once computed
  view,       \* WordList and the WordDetailModal in it: the state of their last render
  runs,       \* the fetchDetails runs (enrichment) started so far
  refreshKey, \* App's refreshKey as of its last render
  fetches,    \* the fetchWords calls of WordList made so far
  queue,      \* the set-state calls React has queued and not yet rendered
  due,        \* the effects of the last render that have not run yet
  multi,      \* fetchMultipleWordDetails on its own: the state of its loop
  fetchIn,    \* fetchWordDetails on its own: the word and the service's response
  fetchOut    \* fetchWordDetails on its own: the outcome, once computed

\* the user interface, and the functions run on their own
ui == <<view, runs, refreshKey, fetches, queue, due>>
aside == <<multi, fetchIn, fetchOut>>

vars == <<table, batches, allWords, upd, byId, now, ticks, tokIn, tokOut, stIn, stOut,
          view, runs, refreshKey, fetches, queue, due, multi, fetchIn, fetchOut>>

----------------------------------------------------------------------------
(* Bounds of the model *)

MaxBatches == 2        \* addOrUpdateWordsConcurrently calls, ingestion alone
MaxListBatches == 1    \* the same, next to getAllWords
MaxUpdates == 1        \* updateWordDetails calls
MaxTicks == 1          \* clock advances
MaxLen == 4            \* length of the texts given to the tokenizer on its own
MaxRuns == 2           \* fetchDetails runs
MaxViewBatches == 1    \* addOrUpdateWordsConcurrently calls, next to the views
MaxWords == 2          \* length of the list given to fetchMultipleWordDetails
MaxOverlap == 3        \* addOrUpdateWord calls on one word

----------------------------------------------------------------------------
(* Optional values *)

Null == <<>>
Some(v) == <<v>>
IsNull(o) == o = <<>>
Val(o) == o[1]

Range(s) == {s[i] : i \in 1..Len(s)}

RECURSIVE SelectSeqBy(_, _)
\* Array.prototype.filter with the predicate given as the set of kept values
SelectSeqBy(s, keep) ==
  IF s = <<>> THEN <<>>
  ELSE IF Head(s) \in keep THEN <<Head(s)>> \o SelectSeqBy(Tail(s), keep)
       ELSE SelectSeqBy(Tail(s), keep)

----------------------------------------------------------------------------
(* The tokenizer: WordInput.processWords, lines 25-31 *)

LowerLetters ==
  {"a","b","c","d","e","f","g","h","i","j","k","l","m",
   "n","o","p","q","r","s","t","u","v","w","x","y","z"}

\* A character is a UTF-16 code unit.  Those of Basic Latin and of the Latin-1
\* Supplement are written as themselves, but for the grave accent, which a
\* TLA+ string cannot hold; a code unit beyond them is written as its code
\* point.  Beyond Latin-1 the model has the code units that
\* toLowerCase turns into a letter of a-z, what they lower to, and the white
\* space; a text with any other code unit is outside the model
GraveAccent == "U+0060"
VerticalTab == ""      \* U+000B
NoBreakSpace == " "     \* U+00A0
SoftHyphen == "­"       \* U+00AD
CapitalIDot == "U+0130"   \* LATIN CAPITAL LETTER I WITH DOT ABOVE
CombiningDot == "U+0307"  \* COMBINING DOT ABOVE
KelvinSign == "U+212A"
AngstromSign == "U+212B"

\* the spaces and line ends beyond Latin-1: the Ogham space mark, the spaces
\* of General Punctuation, the line and paragraph separators, the narrow
\* no-break, medium mathematical and ideographic spaces, the byte order mark
WideSpaces ==
  {"U+1680", "U+2000", "U+2001", "U+2002", "U+2003", "U+2004",
   "U+2005", "U+2006", "U+2007", "U+2008", "U+2009", "U+200A",
   "U+2028", "U+2029", "U+202F", "U+205F", "U+3000", "U+FEFF"}

\* the characters the regular expression class \s matches, which are also
\* those String.prototype.trim removes
WhiteSpace ==
  {"\t", "\n", VerticalTab, "\f", "\r", " ", NoBreakSpace} \cup WideSpaces

BasicLatin ==
  {" ", "!", "\"", "#", "$", "%", "&", "'", "(", ")", "*", "+", ",", "-", ".", "/",
   "0", "1", "2", "3", "4", "5", "6", "7", "8", "9", ":", ";", "<", "=", ">", "?",
   "@", "A", "B", "C", "D", "E", "F", "G", "H", "I", "J", "K", "L", "M", "N", "O",
   "P", "Q", "R", "S", "T", "U", "V", "W", "X", "Y", "Z", "[", "\\", "]", "^", "_",
   GraveAccent, "a", "b", "c", "d", "e", "f", "g", "h", "i", "j", "k", "l", "m", "n", "o",
   "p", "q", "r", "s", "t", "u", "v", "w", "x", "y", "z", "{", "|", "}", "~"}

Latin1Supplement ==
  {NoBreakSpace, SoftHyphen,
   "¡", "¢", "£", "¤", "¥", "¦", "§", "¨", "©", "ª", "«", "¬", "®", "¯", "°", "±",
   "²", "³", "´", "µ", "¶", "·", "¸", "¹", "º", "»", "¼", "½", "¾", "¿", "À", "Á",
   "Â", "Ã", "Ä", "Å", "Æ", "Ç", "È", "É", "Ê", "Ë", "Ì", "Í", "Î", "Ï", "Ð", "Ñ",
   "Ò", "Ó", "Ô", "Õ", "Ö", "×", "Ø", "Ù", "Ú", "Û", "Ü", "Ý", "Þ", "ß", "à", "á",
   "â", "ã", "ä", "å", "æ", "ç", "è", "é", "ê", "ë", "ì", "í", "î", "ï", "ð", "ñ",
   "ò", "ó", "ô", "õ", "ö", "÷", "ø", "ù", "ú", "û", "ü", "ý", "þ", "ÿ"}

CodeUnits ==
  BasicLatin \cup Latin1Supplement \cup WhiteSpace
    \cup {CapitalIDot, CombiningDot, KelvinSign, AngstromSign}

\* the letters of Basic Latin and Latin-1 that have a lower case, and it
UpperCase ==
  <<"A", "B", "C", "D", "E", "F", "G", "H", "I", "J", "K", "L", "M",
    "N", "O", "P", "Q", "R", "S", "T", "U", "V", "W", "X", "Y", "Z",
    "À", "Á", "Â", "Ã", "Ä", "Å", "Æ", "Ç", "È", "É", "Ê", "Ë", "Ì",
    "Í", "Î", "Ï", "Ð", "Ñ", "Ò", "Ó", "Ô", "Õ", "Ö", "Ø", "Ù", "Ú",
    "Û", "Ü", "Ý", "Þ">>
LowerCase ==
  <<"a", "b", "c", "d", "e", "f", "g", "h", "i", "j", "k", "l", "m",
    "n", "o", "p", "q", "r", "s", "t", "u", "v", "w", "x", "y", "z",
    "à", "á", "â", "ã", "ä", "å", "æ", "ç", "è", "é", "ê", "ë", "ì",
    "í", "î", "ï", "ð", "ñ", "ò", "ó", "ô", "õ", "ö", "ø", "ù", "ú",
    "û", "ü", "ý", "þ">>

UpperToLower ==
  [c \in Range(UpperCase) |->
     LowerCase[CHOOSE i \in 1..Len(UpperCase) : UpperCase[i] = c]]

\* String.prototype.toLowerCase on one character: the code units it becomes.
\* I with dot above becomes i and a combining dot, the Kelvin sign k, the
\* Angstrom sign a with ring; a character without a lower case stays
LowerCaseOf ==
  [c \in CodeUnits |->
     IF c = CapitalIDot THEN <<"i", CombiningDot>>
     ELSE IF c = KelvinSign THEN <<"k">>
     ELSE IF c = AngstromSign THEN <<"å">>
     ELSE IF c \in DOMAIN UpperToLower THEN <<UpperToLower[c]>>
     ELSE <<c>>]

ToLowerChar(c) == LowerCaseOf[c]

RECURSIVE ToLowerCase(_)
\* String.prototype.toLowerCase: the text may get longer
ToLowerCase(text) ==
  IF text = <<>> THEN <<>>
  ELSE ToLowerChar(Head(text)) \o ToLowerCase(Tail(text))

RECURSIVE SplitFrom(_, _, _, _)
\* split(/\s+/): every maximal whitespace run is one separator; a run at the
\* start or the end of the text leaves an empty string on that side
SplitFrom(text, i, cur, inRun) ==
  IF i > Len(text) THEN <<cur>>
  ELSE IF text[i] \in WhiteSpace
       THEN IF inRun THEN SplitFrom(text, i + 1, cur, TRUE)
            ELSE <<cur>> \o SplitFrom(text, i + 1, <<>>, TRUE)
       ELSE SplitFrom(text, i + 1, Append(cur, text[i]), FALSE)

SplitOnWhitespace(text) == SplitFrom(text, 1, <<>>, FALSE)

StripNonLettersMutant(word) ==
  SelectSeqBy(word, LowerLetters \cup {"0","1","2","3","4","5","6","7","8","9"})
\* word.replace(/[^a-z]/g, '')
StripNonLetters(word) == SelectSeqBy(word, LowerLetters)

RECURSIVE FilterMinLen(_, _)
\* filter(word => word.length >= n); n = 1 is the filter word.length > 0
FilterMinLen(ws, n) ==
  IF ws = <<>> THEN <<>>
  ELSE IF Len(Head(ws)) >= n THEN <<Head(ws)>> \o FilterMinLen(Tail(ws), n)
       ELSE FilterMinLen(Tail(ws), n)

MapStrip(ws) == [i \in 1..Len(ws) |-> StripNonLetters(ws[i])]

Tokenize(text) ==
  LET lowered  == ToLowerCase(text)
      pieces   == SplitOnWhitespace(lowered)
      nonEmpty == FilterMinLen(pieces, 1)
      stripped == MapStrip(nonEmpty)
      kept     == FilterMinLen(stripped, 1)
  IN  FilterMinLen(kept, 2)

\* inputText.trim() is the empty string
IsBlank(text) == \A i \in 1..Len(text) : text[i] \in WhiteSpace

----------------------------------------------------------------------------
(* The words table: migrations part_003 (lively_canyon), peaceful_smoke and *)
(* part_004 (raspy_smoke)                                                   *)

\* a row as INSERT (word, frequency) leaves it: id and created_at take their
\* defaults, the detail columns and last_fetched_at are NULL
NewRow(id, word, frequency, createdAt) ==
  [id |-> id, word |-> word, frequency |-> frequency, created_at |-> createdAt,
   pronunciation |-> Null, pronunciations |-> Null, definitions |-> Null,
   examples |-> Null, last_fetched_at |-> Null]

\* .eq('word', w): the positions of the rows whose word is w
RowsByWord(t, w) == {i \in 1..Len(t) : t[i].word = w}

\* .eq('id', id): the positions of the rows whose id is id
RowsById(t, id) == {i \in 1..Len(t) : t[i].id = id}

\* .select('*').eq('word', w).maybeSingle(): the row, or null when none matches
MaybeSingleByWord(t, w) ==
  IF RowsByWord(t, w) = {} THEN Null
  ELSE Some(t[CHOOSE i \in RowsByWord(t, w) : TRUE])

\* the constraint  word text UNIQUE NOT NULL  lets the insert of w through
UniqueWordMutant(t, w) == TRUE
UniqueWord(t, w) == RowsByWord(t, w) = {}

\* frequency of word w in the table, 0 when it has no row
FrequencyOf(t, w) ==
  IF RowsByWord(t, w) = {} THEN 0
  ELSE t[CHOOSE i \in RowsByWord(t, w) : TRUE].frequency

----------------------------------------------------------------------------
(* addOrUpdateWord and addOrUpdateWordsConcurrently: part_001 (lib/supabase) *)

RECURSIVE Dedupe(_, _)
\* [...new Set(ws)]: the distinct elements in order of first occurrence
Dedupe(ws, seen) ==
  IF ws = <<>> THEN <<>>
  ELSE IF Head(ws) \in seen THEN Dedupe(Tail(ws), seen)
       ELSE <<Head(ws)>> \o Dedupe(Tail(ws), seen \cup {Head(ws)})

UniqueWordsMutant(words) == [i \in 1..Len(words) |-> ToLowerCase(words[i])]
\* [...new Set(words.map(word => word.toLowerCase()))]
UniqueWords(words) == Dedupe([i \in 1..Len(words) |-> ToLowerCase(words[i])], {})

NewFrequencyStuck(existing, current) == existing.frequency
NewFrequencyMutant(existing, current) == current.frequency + 1
\* { frequency: existingWord.frequency + 1 }: computed from the row as it was
\* read, not from the row as it is when the update runs
NewFrequency(existing, current) == existing.frequency + 1

\* the batches whose Promise.all has not resolved yet
Running(bs) == {b \in 1..Len(bs) : bs[b].status = "running"}

\* the positions of the calls of batch bt that have not returned yet
Pending(bt) == {i \in 1..Len(bt.calls) : bt.calls[i].pc # "done"}

\* the words some call of addOrUpdateWord that has not returned yet is about
BusyWords(bs) == UNION {{bs[b].calls[i].word : i \in Pending(bs[b])} : b \in 1..Len(bs)}

\* the state of one addOrUpdateWord(word) call, its select request sent.
\* error is the error caught and logged, if any.  pre and ov are history: the word's frequency when the call started, and
\* whether another call for the same word was in progress during this one
NewCall(t, bs, word) ==
  [word |-> ToLowerCase(word), pc |-> "select", existing |-> Null, result |-> Null,
   error |-> Null, pre |-> FrequencyOf(t, ToLowerCase(word)),
   ov |-> ToLowerCase(word) \in BusyWords(bs)]

\* addOrUpdateWordsConcurrently(words) up to its await Promise.all: one call
\* per unique word, all started.  ov is history: another batch was running
\* during this one
NewBatch(t, bs, words) ==
  LET uniqueWords == UniqueWords(words)
  IN  [words |-> words,
       calls |-> [i \in 1..Len(uniqueWords) |-> NewCall(t, bs, uniqueWords[i])],
       status |-> "running", success |-> <<>>, failed |-> <<>>,
       ov |-> Running(bs) # {}]

\* the history fields of the batches already there, when a batch for uw starts
MarkOverlap(bs, uw) ==
  [b \in 1..Len(bs) |->
     [bs[b] EXCEPT
        !.ov = @ \/ bs[b].status = "running",
        !.calls = [i \in 1..Len(bs[b].calls) |->
                     LET c == bs[b].calls[i]
                     IN  [c EXCEPT !.ov = @ \/ (c.pc # "done" /\ c.word \in Range(uw))]]]]

\* the texts submitted through the input box
CatCatCat == <<"c","a","t"," ","c","a","t"," ","c","a","t">>
CatDog == <<"C","a","t"," ","d","o","g">>
ADigit == <<"a"," ","1">>
SubmitTexts == {CatCatCat, CatDog, ADigit}

\* WordInput.processWords up to the await: tokenizes the text and starts the
\* batch.  The two early returns (blank text, no word left) change nothing.
ProcessWords(text, limit) ==
  /\ Len(batches) < limit
  /\ ~IsBlank(text)
  /\ LET words == Tokenize(text)
     IN  /\ Len(words) # 0
         /\ batches' = Append(MarkOverlap(batches, UniqueWords(words)),
                              NewBatch(table, batches, words))
  /\ UNCHANGED <<table, allWords, upd, byId, now, ticks, tokIn, tokOut, stIn, stOut, ui, aside>>

\* the errors of the store: a violated unique constraint, .single() finding
\* no row, and any other failure of a request
UniqueViolation == "23505"
NoRow == "PGRST116"
Fault == "fault"

\* the call (b, i) returns result; error is what it caught, if anything
Return(b, i, result, error) ==
  batches' = [batches EXCEPT ![b].calls[i].pc = "done", ![b].calls[i].result = result,
                             ![b].calls[i].error = error]

\* addOrUpdateWord, lines 324-333: the select is answered without error
SelectWord(b, i) ==
  LET c == batches[b].calls[i]
      found == MaybeSingleByWord(table, c.word)
  IN  /\ c.pc = "select"
      /\ batches' = [batches EXCEPT ![b].calls[i].existing = found,
                                     ![b].calls[i].pc = IF IsNull(found) THEN "insert" ELSE "update"]
      /\ UNCHANGED <<table, allWords, upd, byId, now, ticks, tokIn, tokOut, stIn, stOut, ui, aside>>

\* addOrUpdateWord, lines 335-345: the update of the row read, by its id
UpdateFrequency(b, i) ==
  LET c == batches[b].calls[i]
      hit == RowsById(table, Val(c.existing).id)
  IN  /\ c.pc = "update"
      /\ IF hit = {}
         THEN \* .single() on no row is an error: caught, null returned
              /\ Return(b, i, Null, Some(NoRow))
              /\ UNCHANGED table
         ELSE LET k == CHOOSE k \in hit : TRUE
                  row == [table[k] EXCEPT !.frequency = NewFrequency(Val(c.existing), table[k])]
              IN  /\ table' = [table EXCEPT ![k] = row]
                  /\ Return(b, i, Some(row), Null)
      /\ UNCHANGED <<allWords, upd, byId, now, ticks, tokIn, tokOut, stIn, stOut, ui, aside>>

\* addOrUpdateWord, lines 346-356: the insert with frequency 1; the unique
\* constraint on word rejects it when a row for the word exists by now
InsertWord(b, i) ==
  LET c == batches[b].calls[i]
      row == NewRow(Len(table) + 1, c.word, 1, now)
  IN  /\ c.pc = "insert"
      /\ IF UniqueWord(table, c.word)
         THEN /\ table' = Append(table, row)
              /\ Return(b, i, Some(row), Null)
         ELSE /\ Return(b, i, Null, Some(UniqueViolation))
              /\ UNCHANGED table
      /\ UNCHANGED <<allWords, upd, byId, now, ticks, tokIn, tokOut, stIn, stOut, ui, aside>>

\* addOrUpdateWord, lines 331-333, 344, 354 and 357-361: the store answers the
\* request in flight with an error; it is thrown, caught, and null is returned
StoreError(b, i) ==
  /\ batches[b].calls[i].pc # "done"
  /\ Return(b, i, Null, Some(Fault))
  /\ UNCHANGED <<table, allWords, upd, byId, now, ticks, tokIn, tokOut, stIn, stOut, ui, aside>>

AllSettledMutant(bt) == \E i \in 1..Len(bt.calls) : bt.calls[i].pc = "done"
\* await Promise.all(wordPromises): no promise rejects, so it resolves when
\* every call has returned
AllSettled(bt) == \A i \in 1..Len(bt.calls) : bt.calls[i].pc = "done"

RECURSIVE Succeeded(_)
\* results.forEach: success.push(result) when result is not null
Succeeded(calls) ==
  IF calls = <<>> THEN <<>>
  ELSE IF ~IsNull(Head(calls).result) THEN <<Val(Head(calls).result)>> \o Succeeded(Tail(calls))
       ELSE Succeeded(Tail(calls))

RECURSIVE Failed(_)
\* results.forEach: failed.push(word) otherwise
Failed(calls) ==
  IF calls = <<>> THEN <<>>
  ELSE IF IsNull(Head(calls).result) THEN <<Head(calls).word>> \o Failed(Tail(calls))
       ELSE Failed(Tail(calls))

\* addOrUpdateWordsConcurrently, lines 389-403: Promise.all resolves and the
\* results are split into success and failed
AwaitAll(b) ==
  /\ batches[b].status = "running"
  /\ AllSettled(batches[b])
  /\ batches' = [batches EXCEPT ![b].status = "done",
                                 ![b].success = Succeeded(batches[b].calls),
                                 ![b].failed = Failed(batches[b].calls)]
  /\ UNCHANGED <<table, allWords, upd, byId, now, ticks, tokIn, tokOut, stIn, stOut, ui, aside>>

----------------------------------------------------------------------------
(* getAllWords, updateWordDetails, getWordById: part_001 (lib/supabase) *)

\* the bijections of 1..n
Bijections(n) == {p \in [1..n -> 1..n] : \A i, j \in 1..n : p[i] = p[j] => i = j}

IsDescending(rows) ==
  \A i \in 1..Len(rows) - 1 : rows[i].frequency >= rows[i + 1].frequency

\* .select('*').order('frequency', { ascending: false }): the rows of the table
\* by frequency descending; the store fixes no order among equal frequencies,
\* so every descending arrangement is a possible answer
OrderByFrequency(t) ==
  {rows \in {[i \in 1..Len(t) |-> t[p[i]]] : p \in Bijections(Len(t))} : IsDescending(rows)}

\* getAllWords, lines 417-423: the query is answered with the rows.
\* `of` is history: the table the answer was computed from.  What becomes of
\* fetches is up to the caller: a fetchWords call, or none
GetAllWords ==
  /\ \E rows \in OrderByFrequency(table) :
       allWords' = Some([error |-> FALSE, data |-> rows, of |-> table])
  /\ UNCHANGED <<table, batches, upd, byId, now, ticks, tokIn, tokOut, stIn, stOut,
                 view, runs, refreshKey, queue, due, aside>>

\* getAllWords, lines 422 and 424-428: the store answers with an error; it is
\* thrown, caught, and the empty array is returned
GetAllWordsError ==
  /\ allWords' = Some([error |-> TRUE, data |-> <<>>, of |-> table])
  /\ UNCHANGED <<table, batches, upd, byId, now, ticks, tokIn, tokOut, stIn, stOut,
                 view, runs, refreshKey, queue, due, aside>>

\* detail payloads handed to updateWordDetails; Null is a field left out
DetailsA ==
  [pronunciation |-> Some("/kat/"),
   pronunciations |-> Some(<<[text |-> "/kat/", audio |-> Some("cat.mp3")]>>),
   definitions |-> Some(<<[partOfSpeech |-> "noun", definition |-> "a small animal"]>>),
   examples |-> Some(<<"The cat sat.">>)]
DetailsB ==
  [pronunciation |-> Some("/cat/"),
   pronunciations |-> Some(<<[text |-> "/cat/", audio |-> Null]>>),
   definitions |-> Some(<<[partOfSpeech |-> "verb", definition |-> "to hoist"]>>),
   examples |-> Some(<<"This is an example.">>)]
OnlyExamples ==
  [pronunciation |-> Null, pronunciations |-> Null, definitions |-> Null,
   examples |-> Some(<<"Only an example.">>)]
DetailPayloads == {DetailsA, DetailsB, OnlyExamples}

\* an id that no row has or will have
UnknownId == 0

\* a column of the PATCH: the payload's value; a property whose value is
\* undefined is left out of the JSON body, so its column keeps its value
Patched(old, new) == IF IsNull(new) THEN old ELSE new

ApplyDetailsResetting(row, details, stamp) ==
  [row EXCEPT !.frequency = 1,
              !.pronunciation = Patched(@, details.pronunciation),
              !.pronunciations = Patched(@, details.pronunciations),
              !.definitions = Patched(@, details.definitions),
              !.examples = Patched(@, details.examples),
              !.last_fetched_at = Some(stamp)]
ApplyDetailsMixing(row, details, stamp) ==
  [row EXCEPT !.pronunciation = IF IsNull(@) THEN details.pronunciation ELSE @,
              !.pronunciations = IF IsNull(@) THEN details.pronunciations ELSE @,
              !.definitions = Patched(@, details.definitions),
              !.examples = Patched(@, details.examples),
              !.last_fetched_at = Some(stamp)]
ApplyDetailsUnstamped(row, details, stamp) ==
  [row EXCEPT !.pronunciation = Patched(@, details.pronunciation),
              !.pronunciations = Patched(@, details.pronunciations),
              !.definitions = Patched(@, details.definitions),
              !.examples = Patched(@, details.examples)]
\* updateWordDetails, lines 449-455: the row after .update({...})
ApplyDetails(row, details, stamp) ==
  [row EXCEPT !.pronunciation = Patched(@, details.pronunciation),
              !.pronunciations = Patched(@, details.pronunciations),
              !.definitions = Patched(@, details.definitions),
              !.examples = Patched(@, details.examples),
              !.last_fetched_at = Some(stamp)]

\* updateWordDetails, lines 447-458: the update as sent, stamped with
\* new Date().  error is the error caught and logged, if any.  before is
\* history: the row as the update found it
NewUpdate(id, details, stamp) ==
  [id |-> id, details |-> details, stamp |-> stamp,
   pc |-> "sent", result |-> Null, error |-> Null, before |-> Null]

\* updateWordDetails, lines 437-455: the call builds the update and sends it
UpdateWordDetails(id, details) ==
  /\ Len(upd) < MaxUpdates
  /\ upd' = Append(upd, NewUpdate(id, details, now))
  /\ UNCHANGED <<table, batches, allWords, byId, now, ticks, tokIn, tokOut, stIn, stOut, ui, aside>>

WriteMissingMutant(t, u) ==
  Append(t, ApplyDetails(NewRow(u.id, <<>>, 1, u.stamp), u.details, u.stamp))
\* what .update(...).eq('id', id) does to the table when no row has the id
WriteMissing(t, u) == t

\* updateWordDetails, lines 447-461: the store runs the update and returns the
\* row; .single() on no row is an error: caught, null returned
ApplyUpdate(k) ==
  LET u == upd[k]
      hit == RowsById(table, u.id)
  IN  /\ u.pc = "sent"
      /\ IF hit = {}
         THEN /\ table' = WriteMissing(table, u)
              /\ upd' = [upd EXCEPT ![k].pc = "done", ![k].error = Some(NoRow)]
         ELSE LET j == CHOOSE j \in hit : TRUE
                  row == ApplyDetails(table[j], u.details, u.stamp)
              IN  /\ table' = [table EXCEPT ![j] = row]
                  /\ upd' = [upd EXCEPT ![k].pc = "done", ![k].result = Some(row),
                                        ![k].before = Some(table[j])]
      /\ UNCHANGED <<batches, allWords, byId, now, ticks, tokIn, tokOut, stIn, stOut, ui, aside>>

\* updateWordDetails, lines 460 and 462-465: the store answers with an error
UpdateError(k) ==
  /\ upd[k].pc = "sent"
  /\ upd' = [upd EXCEPT ![k].pc = "done", ![k].error = Some(Fault)]
  /\ UNCHANGED <<table, batches, allWords, byId, now, ticks, tokIn, tokOut, stIn, stOut, ui, aside>>

SingleByIdMutant(t, id) == IF t = <<>> THEN Null ELSE Some(t[1])
\* .select('*').eq('id', id).single(): the row; no row is an error, which
\* getWordById catches to return null
SingleById(t, id) ==
  IF RowsById(t, id) = {} THEN Null ELSE Some(t[CHOOSE j \in RowsById(t, id) : TRUE])

\* getWordById, lines 473-482
GetWordById(id) ==
  /\ byId' = Some([id |-> id, result |-> SingleById(table, id),
                   error |-> IF IsNull(SingleById(table, id)) THEN Some(NoRow) ELSE Null])
  /\ UNCHANGED <<table, batches, allWords, upd, now, ticks, tokIn, tokOut, stIn, stOut, ui, aside>>

\* getWordById, lines 481 and 483-486: the store answers with an error
GetWordByIdError(id) ==
  /\ byId' = Some([id |-> id, result |-> Null, error |-> Some(Fault)])
  /\ UNCHANGED <<table, batches, allWords, upd, now, ticks, tokIn, tokOut, stIn, stOut, ui, aside>>

----------------------------------------------------------------------------
(* shouldUpdateWordDetails: services/dictionaryApi.ts *)

MsPerHour == 1000 * 60 * 60

DefaultMaxAgeHours == 24 * 7

ExceedsMutant(elapsedMs, maxAgeHours) == elapsedMs >= maxAgeHours * MsPerHour
\* hoursDiff > maxAgeHours, with hoursDiff = elapsedMs / (1000 * 60 * 60) a
\* fraction: the same as elapsedMs > maxAgeHours * (1000 * 60 * 60)
Exceeds(elapsedMs, maxAgeHours) == elapsedMs > maxAgeHours * MsPerHour

\* shouldUpdateWordDetails(lastFetchedAt, maxAgeHours) evaluated at time clock;
\* a maxAgeHours left out takes the default
ShouldUpdateWordDetails(lastFetchedAt, maxAgeHours, clock) ==
  LET maxAge == IF IsNull(maxAgeHours) THEN DefaultMaxAgeHours ELSE Val(maxAgeHours)
  IN  IF IsNull(lastFetchedAt) THEN TRUE
      ELSE Exceeds(clock - Val(lastFetchedAt), maxAge)

----------------------------------------------------------------------------
(* fetchWordDetails: services/dictionaryApi.ts.  The texts of the lookup     *)
(* service's answer are strings; a property left out of the JSON is Null.     *)

RECURSIVE Join(_)
\* the string a word (a sequence of characters) spells
Join(word) == IF word = <<>> THEN "" ELSE Head(word) \o Join(Tail(word))

\* a string property that is neither undefined, null nor the empty string
Truthy(o) == ~IsNull(o) /\ Val(o) # ""

RECURSIVE TrimStart(_)
TrimStart(s) ==
  IF s = "" THEN ""
  ELSE IF SubSeq(s, 1, 1) \in WhiteSpace THEN TrimStart(SubSeq(s, 2, Len(s)))
       ELSE s

RECURSIVE TrimEnd(_)
TrimEnd(s) ==
  IF s = "" THEN ""
  ELSE IF SubSeq(s, Len(s), Len(s)) \in WhiteSpace THEN TrimEnd(SubSeq(s, 1, Len(s) - 1))
       ELSE s

\* String.prototype.trim
Trim(s) == TrimEnd(TrimStart(s))

\* Array.prototype.slice(0, n)
Slice(s, n) == SubSeq(s, 1, IF Len(s) < n THEN Len(s) ELSE n)

\* response.ok
Ok(response) == response.status >= 200 /\ response.status <= 299

\* lines 80-98, one phonetic: the entry pushed for it, if it has text; the
\* audio is kept only when it is there and not blank
PronunciationInfo(phonetic) ==
  IF Truthy(phonetic.text)
  THEN <<[text |-> Val(phonetic.text),
          audio |-> IF Truthy(phonetic.audio) /\ Trim(Val(phonetic.audio)) # ""
                    THEN phonetic.audio ELSE Null]>>
  ELSE <<>>

RECURSIVE FromPhonetics(_)
\* lines 79-99: wordData.phonetics.forEach
FromPhonetics(phonetics) ==
  IF phonetics = <<>> THEN <<>>
  ELSE PronunciationInfo(Head(phonetics)) \o FromPhonetics(Tail(phonetics))

\* the placeholder `/${word}/`
Placeholder(word) == "/" \o Join(word) \o "/"

\* lines 75-115: the pronunciations, by the three-step fallback
Pronunciations(word, wordData) ==
  LET listed == IF IsNull(wordData.phonetics) THEN <<>>
                ELSE FromPhonetics(Val(wordData.phonetics))
  IN  IF listed # <<>> THEN listed
      ELSE IF Truthy(wordData.phonetic)
           THEN <<[text |-> Val(wordData.phonetic), audio |-> Null]>>
           ELSE <<[text |-> Placeholder(word), audio |-> Null]>>

MainPronunciationMutant(word, wordData) ==
  IF Truthy(wordData.phonetic) THEN Val(wordData.phonetic)
  ELSE Pronunciations(word, wordData)[1].text
\* lines 76, 94-96, 102-103, 110-111: mainPronunciation
MainPronunciation(word, wordData) ==
  LET listed == IF IsNull(wordData.phonetics) THEN <<>>
                ELSE FromPhonetics(Val(wordData.phonetics))
  IN  IF listed # <<>> THEN listed[1].text
      ELSE IF Truthy(wordData.phonetic) THEN Val(wordData.phonetic)
           ELSE Placeholder(word)

RECURSIVE ScanDefinitions(_, _, _, _)
\* lines 122-135: meaning.definitions.forEach((def, index) => ...), index
\* counted from 1 here; acc holds the definitions and examples pushed so far
ScanDefinitions(partOfSpeech, defs, index, acc) ==
  IF index > Len(defs) THEN acc
  ELSE LET def == defs[index]
           definitions ==
             IF index - 1 < 3
             THEN Append(acc.definitions,
                         [partOfSpeech |-> partOfSpeech, definition |-> def.definition])
             ELSE acc.definitions
           examples ==
             IF Truthy(def.example) /\ Len(acc.examples) < 5
             THEN Append(acc.examples, Val(def.example))
             ELSE acc.examples
       IN  ScanDefinitions(partOfSpeech, defs, index + 1,
                           [definitions |-> definitions, examples |-> examples])

RECURSIVE ScanMeanings(_, _)
\* lines 121-136: wordData.meanings.forEach
ScanMeanings(meanings, acc) ==
  IF meanings = <<>> THEN acc
  ELSE ScanMeanings(Tail(meanings),
                    ScanDefinitions(Head(meanings).partOfSpeech,
                                    Head(meanings).definitions, 1, acc))

\* the sentence made up when no definition carries an example
ExampleTemplate(word) ==
  "This is an example sentence with the word \"" \o Join(word) \o "\"."

ExtractDetailsUncapped(word, wordData) ==
  LET found == ScanMeanings(Val(wordData.meanings), [definitions |-> <<>>, examples |-> <<>>])
      examples == IF Len(found.examples) = 0 THEN <<ExampleTemplate(word)>>
                  ELSE found.examples
  IN  [pronunciation |-> MainPronunciation(word, wordData),
       pronunciations |-> Pronunciations(word, wordData),
       definitions |-> found.definitions,
       examples |-> Slice(examples, 3)]
ExtractDetailsAllExamples(word, wordData) ==
  LET found == ScanMeanings(Val(wordData.meanings), [definitions |-> <<>>, examples |-> <<>>])
  IN  [pronunciation |-> MainPronunciation(word, wordData),
       pronunciations |-> Pronunciations(word, wordData),
       definitions |-> Slice(found.definitions, 5),
       examples |-> found.examples]
\* lines 72-148: the details made of the first entry of the answer
ExtractDetails(word, wordData) ==
  LET found == ScanMeanings(Val(wordData.meanings), [definitions |-> <<>>, examples |-> <<>>])
      examples == IF Len(found.examples) = 0 THEN <<ExampleTemplate(word)>>
                  ELSE found.examples
  IN  [pronunciation |-> MainPronunciation(word, wordData),
       pronunciations |-> Pronunciations(word, wordData),
       definitions |-> Slice(found.definitions, 5),
       examples |-> Slice(examples, 3)]

\* how a block of code ends: by returning a value or by throwing
Returns(value) == [throws |-> FALSE, value |-> value]
Throws == [throws |-> TRUE, value |-> Null]

NotFoundMutant(word) ==
  Returns(Some(ExtractDetails(word, [phonetic |-> Null, phonetics |-> Null,
                                     meanings |-> Some(<<>>)])))
\* lines 55-58: status 404, the service has no entry for the word: logged, and
\* null returned
NotFound(word) == Returns(Null)

\* lines 47-148, the body of the try.  A response is the outcome of fetch():
\* transport is a rejected fetch (no answer at all); body is the parsed JSON,
\* Null when it cannot be parsed.  A missing meanings list makes forEach throw
TryFetchWordDetails(word, response) ==
  IF response.transport THEN Throws
  ELSE IF ~Ok(response)
       THEN IF response.status = 404 THEN NotFound(word) ELSE Throws
  ELSE IF IsNull(response.body) THEN Throws
  ELSE IF Len(Val(response.body)) = 0 THEN Returns(Null)
  ELSE IF IsNull(Val(response.body)[1].meanings) THEN Throws
  ELSE Returns(Some(ExtractDetails(word, Val(response.body)[1])))

\* lines 150-153: whatever the try throws is caught and logged, null returned
Caught(attempt) == IF attempt.throws THEN Returns(Null) ELSE attempt

\* fetchWordDetails(word), the lookup service answering with response
FetchWordDetails(word, response) == Caught(TryFetchWordDetails(word, response))

\* the outcomes of fetch(apiUrl): an answer with a status and no usable body,
\* an answer 200 with a parsed body, and a rejected fetch
StatusResponse(status) == [transport |-> FALSE, status |-> status, body |-> Null]
OkResponse(body) == [transport |-> FALSE, status |-> 200, body |-> body]
TransportError == [transport |-> TRUE, status |-> 0, body |-> Null]

\* neither success nor "no entry": another status, or no answer at all
IsFailure(response) ==
  response.transport \/ (~Ok(response) /\ response.status # 404)

Digits == <<"1", "2", "3", "4">>

\* the k-th text of a kind: "noun 2", "verb example 1"
Numbered(kind, k) == kind \o " " \o Digits[k]

\* a meaning group of n definitions, those numbered in withExample carrying
\* an example sentence
Meaning(partOfSpeech, n, withExample) ==
  [partOfSpeech |-> partOfSpeech,
   definitions |->
     [k \in 1..n |->
        [definition |-> Numbered(partOfSpeech, k),
         example |-> IF k \in withExample
                     THEN Some(Numbered(partOfSpeech \o " example", k)) ELSE Null]]]

----------------------------------------------------------------------------
(* The word list and the detail view: WordList (part_001, lines 1-273) and   *)
(* WordDetailModal, as React runs them.  One step is one callback: a handler *)
(* with the render React makes at once for it and the effects of that      *)
(* render, the continuation of an await, a later render that takes up the   *)
(* set-state calls queued meanwhile, or the effects of such a render.       *)

\* WordList, lines 117-163 and 165-272: the list and, with it, the modal are
\* rendered only by the last return: not while loading, not with an error,
\* not with no word.  Any other return unmounts the modal
Rendered(v) == ~v.loading /\ IsNull(v.error) /\ Len(v.words) # 0

\* WordDetailModal, lines 74-75: needsUpdate && !currentWord.pronunciation &&
\* !currentWord.definitions (an empty list of definitions is not falsy)
AutoFetch(row, clock) ==
  /\ ShouldUpdateWordDetails(row.last_fetched_at, Null, clock)
  /\ ~Truthy(row.pronunciation)
  /\ IsNull(row.definitions)

\* the two messages of setError in fetchDetails, lines 61 and 65
NoDetailsMessage == "no details found for this word"
FetchFailedMessage == "fetching the details failed, retry later"

\* the runs on record id that ended without storing anything, and those that
\* ended with the details stored
EndedWithout(rs, id) ==
  {r \in 1..Len(rs) : rs[r].word.id = id /\ rs[r].pc = "done" /\ rs[r].report # "details"}
EndedStored(rs, id) ==
  {r \in 1..Len(rs) : rs[r].word.id = id /\ rs[r].pc = "done" /\ rs[r].report = "details"}

\* fetchDetails, lines 31-39: a run of the enrichment flow on row, its lookup
\* request sent.  trigger is what started it: "user" (refresh, retry, get
\* details), or what made the second effect run: "open" (a click: isOpen, or
\* the word handed over as currentWord), "update" (the record the store
\* returned as currentWord) or "mount" (the modal mounting).  report is what
\* the run told the user.
\* stored, retried and enriched are history: the record as the table held it
\* when the run started, and whether an earlier run on it had ended without
\* storing, or with the details stored
NewRun(row, mount, trigger) ==
  [word |-> row, mount |-> mount, trigger |-> trigger, pc |-> "fetch",
   response |-> Null, upd |-> 0, report |-> "",
   stored |-> SingleById(table, row.id),
   retried |-> EndedWithout(runs, row.id) # {},
   enriched |-> EndedStored(runs, row.id) # {}]

\* lines 43-54: the payload handed to updateWordDetails
Payload(details) ==
  [pronunciation |-> Some(details.pronunciation),
   pronunciations |-> Some(details.pronunciations),
   definitions |-> Some(details.definitions),
   examples |-> Some(details.examples)]

\* a Word object of the page.  The rows of the array getAllWords returns and
\* the record updateWordDetails returns are parsed from the store's answer:
\* new objects with every answer.  from names the call the object was
\* returned to.  React compares states and dependencies with Object.is, which
\* holds of two Word objects only when they are one object
Object(row, call, n) == row @@ [from |-> [call |-> call, n |-> n]]
Objects(rows, call, n) == [i \in 1..Len(rows) |-> Object(rows[i], call, n)]

\* the record a Word object holds
RecordOf(object) == [f \in DOMAIN object \ {"from"} |-> object[f]]

\* handleWordUpdated, lines 106-112
ReplaceById(words, updated) ==
  [i \in 1..Len(words) |-> IF words[i].id = updated.id THEN updated ELSE words[i]]

\* the set-state calls of a run reach the modal it was started in, as long
\* as that modal is mounted
Reaches(run, v) == Rendered(v) /\ run.mount = v.mount

\* WordDetailModal, lines 150-152 and 156-162: the modal shows only when it
\* is open and holds a word, and its overlay then covers the page; when it
\* returns null the cards of the list can be clicked
ModalShown(v) == Rendered(v) /\ v.isModalOpen /\ ~IsNull(v.currentWord)
CardsShown(v) == Rendered(v) /\ ~ModalShown(v)

\* a set-state call that React has queued: the hook and the value.  by tells
\* the two setCurrentWord calls apart: "open" is the word WordList handed
\* over (line 26), "update" the record the store returned (line 57)
Call(set, value, by) == [set |-> set, value |-> value, by |-> by]

\* what React holds between renders: the state the components were last
\* rendered with, App's refreshKey, and where a new currentWord came from
Held(v, key) == [view |-> v, key |-> key, cause |-> ""]

\* React takes a queued call up: setRefreshKey(prev => prev + 1) of
\* App.handleWordsAdded, setWords(prev => prev.map(...)) of handleWordUpdated
\* ("word"), and the plain setters of WordList and of the modal
Take(st, call) ==
  CASE call.set = "refreshKey" -> [st EXCEPT !.key = @ + 1]
    [] call.set = "words" -> [st EXCEPT !.view.words = call.value]
    [] call.set = "word" -> [st EXCEPT !.view.words = ReplaceById(@, call.value)]
    [] call.set = "loading" -> [st EXCEPT !.view.loading = call.value]
    [] call.set = "error" -> [st EXCEPT !.view.error = call.value]
    [] call.set = "currentWord" ->
         [st EXCEPT !.view.currentWord = call.value,
                    !.cause = IF call.value = st.view.currentWord THEN @ ELSE call.by]
    [] call.set = "isLoading" -> [st EXCEPT !.view.isLoading = call.value]
    [] call.set = "modalError" -> [st EXCEPT !.view.modalError = call.value]

\* the queued calls are taken up in the order they were made
RECURSIVE TakeAll(_, _)
TakeAll(st, calls) ==
  IF calls = <<>> THEN st ELSE TakeAll(Take(st, Head(calls)), Tail(calls))

\* a plain setter overrides what the calls queued before it on the same hook
\* set, and setWords(data) what handleWordUpdated has replaced
Overrides(call, earlier) ==
  \/ call.set = earlier.set /\ call.set \notin {"refreshKey", "word"}
  \/ call.set = "words" /\ earlier.set = "word"

\* set-state calls go behind the calls not yet rendered.  The calls a new
\* call overrides no longer count, and a call that leaves every state the
\* very value or object the calls before it leave changes no state and no
\* dependency of an effect (Object.is holds of each): such calls are left
\* out of the queue
RECURSIVE Enqueue(_, _, _)
Enqueue(st, calls, more) ==
  IF more = <<>> THEN calls
  ELSE LET Stays(earlier) == ~Overrides(Head(more), earlier)
           rest == SelectSeq(calls, Stays)
           with == Append(rest, Head(more))
       IN  Enqueue(st, IF TakeAll(st, with) = TakeAll(st, rest) THEN rest ELSE with,
                   Tail(more))

\* the effects of a render that have not run yet: list is the effect of
\* WordList (lines 89-91), word the first effect of the modal (lines 25-28),
\* auto its second (lines 72-79), with what made it due
NoneDue == [list |-> FALSE, word |-> FALSE, auto |-> ""]

\* the effects a render by a handler leaves due: the dependency arrays
\* [word] and [currentWord, isOpen] are compared with the render before, a
\* Word object being the same only as itself
Changed(old, new, cause) ==
  [list |-> FALSE,
   word |-> old.selectedWord # new.selectedWord,
   auto |-> IF old.isModalOpen # new.isModalOpen \/ old.currentWord # new.currentWord
            THEN cause ELSE ""]

\* fetchWords, lines 74-78: a call that has sent its getAllWords query.
\* answer is what getAllWords returned to it, from the store's answer until
\* the continuation has used it
NewFetch == [pc |-> "await", answer |-> Null]

\* the effects d run on the render v, the modal's before WordList's: the
\* set-state calls they make, the fetchDetails runs they start (lines 72-79
\* and 31-39) and the fetchWords calls they start (lines 89-91 and 74-78)
Effects(v, d) ==
  LET fetch == /\ d.auto # ""
               /\ ~IsNull(v.currentWord)
               /\ v.isModalOpen
               /\ AutoFetch(Val(v.currentWord), now)
  IN  [calls |-> (IF d.word THEN <<Call("currentWord", v.selectedWord, "open"),
                                    Call("modalError", Null, "")>> ELSE <<>>)
                 \o (IF fetch THEN <<Call("isLoading", TRUE, ""),
                                     Call("modalError", Null, "")>> ELSE <<>>)
                 \o (IF d.list THEN <<Call("loading", TRUE, ""),
                                      Call("error", Null, "")>> ELSE <<>>),
       runs |-> IF fetch THEN <<NewRun(Val(v.currentWord), v.mount, d.auto)>> ELSE <<>>,
       fetches |-> IF d.list THEN <<NewFetch>> ELSE <<>>]

\* WordInput.processWords, lines 41-50: onWordsAdded is called in the
\* continuation of the await of the batch, before the page runs anything
\* else.  Notified counts the onWordsAdded calls made so far
Notified == refreshKey + Cardinality({i \in 1..Len(queue) : queue[i].set = "refreshKey"})
Settled == Notified = Cardinality({b \in 1..Len(batches) : batches[b].status = "done"})

\* handleWordClick, lines 94-97, the render React makes at once for a click,
\* and the effects of that render.  Effects still due run before the render.
\* The render has the word clicked and isOpen, and the currentWord of the
\* render before: the first effect queues setCurrentWord(word) and
\* setError(null), the second effect (isOpen has changed) checks the
\* currentWord that render has
HandleWordClick(j) ==
  LET row == view.words[j]
      before == Effects(view, due)
      shown == [view EXCEPT !.selectedWord = Some(row), !.isModalOpen = TRUE]
      after == Effects(shown, Changed(view, shown, "open"))
  IN  /\ CardsShown(view)
      /\ Settled
      /\ Len(runs) + Len(before.runs) + Len(after.runs) <= MaxRuns
      /\ runs' = runs \o before.runs \o after.runs
      /\ fetches' = fetches \o before.fetches
      /\ queue' = Enqueue(Held(shown, refreshKey), queue, before.calls \o after.calls)
      /\ due' = NoneDue
      /\ view' = shown
      /\ UNCHANGED <<table, batches, allWords, upd, byId, now, ticks, tokIn, tokOut,
                     stIn, stOut, refreshKey, aside>>

\* handleModalClose, lines 100-103, the render React makes at once, and the
\* effects of that render: the first effect queues setCurrentWord(null) and
\* setError(null), the second finds the modal closed
HandleModalClose ==
  LET before == Effects(view, due)
      shown == [view EXCEPT !.isModalOpen = FALSE, !.selectedWord = Null]
      after == Effects(shown, Changed(view, shown, "close"))
  IN  /\ ModalShown(view)
      /\ Settled
      /\ Len(runs) + Len(before.runs) + Len(after.runs) <= MaxRuns
      /\ runs' = runs \o before.runs \o after.runs
      /\ fetches' = fetches \o before.fetches
      /\ queue' = Enqueue(Held(shown, refreshKey), queue, before.calls \o after.calls)
      /\ due' = NoneDue
      /\ view' = shown
      /\ UNCHANGED <<table, batches, allWords, upd, byId, now, ticks, tokIn, tokOut,
                     stIn, stOut, refreshKey, aside>>

\* the buttons of the modal that call fetchDetails (lines 186-193, 230-235,
\* 330-335), none of which can be pressed while isLoading, with fetchDetails
\* up to its await (lines 31-39) and the render React makes at once.  Effects
\* still due run before that render.  The two set-state calls stay behind
\* any call queued on the same hook
Refresh ==
  LET pressed == NewRun(Val(view.currentWord), view.mount, "user")
      before == Effects(view, due)
      shown == [view EXCEPT !.isLoading = TRUE, !.modalError = Null]
  IN  /\ ModalShown(view)
      /\ Settled
      /\ ~view.isLoading
      /\ Len(runs) + 1 + Len(before.runs) <= MaxRuns
      /\ runs' = Append(runs, pressed) \o before.runs
      /\ fetches' = fetches \o before.fetches
      /\ queue' = Enqueue(Held(shown, refreshKey), queue,
                          <<Call("isLoading", TRUE, ""), Call("modalError", Null, "")>>
                          \o before.calls)
      /\ due' = NoneDue
      /\ view' = shown
      /\ UNCHANGED <<table, batches, allWords, upd, byId, now, ticks, tokIn, tokOut,
                     stIn, stOut, refreshKey, aside>>

\* the state of the modal once it is unmounted: its useState values are gone
Unmounted(v) == [v EXCEPT !.currentWord = Null, !.isLoading = FALSE, !.modalError = Null]

\* WordDetailModal, lines 19-21: the modal as it mounts, useState(word),
\* useState(false) and useState(null)
Mounted(v) ==
  [v EXCEPT !.mount = @ + 1, !.currentWord = v.selectedWord,
            !.isLoading = FALSE, !.modalError = Null]

\* React renders: it takes up the set-state calls queued since the last
\* render, once the effects of that render have run.  WordList returns the
\* list, and with it the modal, or another tree (lines 117-163), which
\* unmounts the modal; when the list comes up the modal mounts.  The effects
\* whose dependencies have changed are due, the second effect of the modal
\* also when currentWord is another object holding an equal record: they run
\* in a later step
Render ==
  LET st == TakeAll(Held(view, refreshKey), queue)
      v == st.view
  IN  /\ queue # <<>>
      /\ due = NoneDue
      /\ Settled
      /\ view' = IF Rendered(view) /\ Rendered(v) THEN v
                 ELSE IF Rendered(v) THEN Mounted(v)
                 ELSE Unmounted(v)
      /\ refreshKey' = st.key
      /\ queue' = <<>>
      /\ due' = [list |-> st.key # refreshKey,
                 word |-> Rendered(v) /\ ~Rendered(view),
                 auto |-> IF ~Rendered(v) THEN ""
                          ELSE IF ~Rendered(view) THEN "mount"
                          ELSE IF v.currentWord # view.currentWord THEN st.cause
                          ELSE ""]
      /\ UNCHANGED <<table, batches, allWords, upd, byId, now, ticks, tokIn, tokOut,
                     stIn, stOut, runs, fetches, aside>>

\* the effects of the last render run, after the page has been painted:
\* the effect of WordList calls fetchWords (lines 89-91), whether or not an
\* earlier call is still under way, and the second effect of the modal may
\* call fetchDetails (lines 72-79)
RunEffects ==
  LET ran == Effects(view, due)
  IN  /\ due # NoneDue
      /\ Settled
      /\ Len(runs) + Len(ran.runs) <= MaxRuns
      /\ runs' = runs \o ran.runs
      /\ fetches' = fetches \o ran.fetches
      /\ queue' = Enqueue(Held(view, refreshKey), queue, ran.calls)
      /\ due' = NoneDue
      /\ UNCHANGED <<table, batches, allWords, upd, byId, now, ticks, tokIn, tokOut,
                     stIn, stOut, view, refreshKey, aside>>

\* fetchDetails, lines 39-68: fetchWordDetails returns.  With details, the
\* update is sent to the store; with null, the no-details message is set; a
\* throw would set the failure message; either way isLoading is set off
LookupReturns(r, response) ==
  LET run == runs[r]
      got == FetchWordDetails(run.word.word, response)
  IN  /\ run.pc = "fetch"
      /\ Settled
      /\ IF ~got.throws /\ ~IsNull(got.value)
         THEN /\ upd' = Append(upd, NewUpdate(run.word.id, Payload(Val(got.value)), now))
              /\ runs' = [runs EXCEPT ![r].pc = "update", ![r].response = Some(response),
                                      ![r].upd = Len(upd) + 1]
              /\ UNCHANGED queue
         ELSE /\ runs' = [runs EXCEPT ![r].pc = "done", ![r].response = Some(response),
                                      ![r].report = IF got.throws THEN "error" ELSE "no details"]
              /\ queue' = IF Reaches(run, view)
                          THEN Enqueue(Held(view, refreshKey), queue,
                                       <<Call("modalError",
                                              IF got.throws THEN Some(FetchFailedMessage)
                                              ELSE Some(NoDetailsMessage), ""),
                                         Call("isLoading", FALSE, "")>>)
                          ELSE queue
              /\ UNCHANGED upd
      /\ UNCHANGED <<table, batches, allWords, byId, now, ticks, tokIn, tokOut,
                     stIn, stOut, view, refreshKey, fetches, due, aside>>

\* fetchDetails, lines 49-59 and 66-68: updateWordDetails returns.  A record
\* is set as currentWord and handed to the list through onWordUpdated
\* (handleWordUpdated, lines 106-112); null is passed over; isLoading is set
\* off
UpdateReturns(r) ==
  LET run == runs[r]
      returned == upd[run.upd].result
      updatedWord == IF IsNull(returned) THEN Null
                     ELSE Some(Object(Val(returned), "fetchDetails", r))
      here == Reaches(run, view)
  IN  /\ run.pc = "update"
      /\ Settled
      /\ upd[run.upd].pc = "done"
      /\ runs' = [runs EXCEPT ![r].pc = "done",
                              ![r].report = IF IsNull(updatedWord) THEN "none" ELSE "details"]
      /\ queue' = Enqueue(Held(view, refreshKey), queue,
                          (IF ~IsNull(updatedWord) /\ here
                           THEN <<Call("currentWord", updatedWord, "update")>> ELSE <<>>)
                          \o (IF ~IsNull(updatedWord)
                              THEN <<Call("word", Val(updatedWord), "")>> ELSE <<>>)
                          \o (IF here THEN <<Call("isLoading", FALSE, "")>> ELSE <<>>))
      /\ UNCHANGED <<table, batches, allWords, upd, byId, now, ticks, tokIn, tokOut,
                     stIn, stOut, view, refreshKey, fetches, due, aside>>

\* WordInput.processWords, lines 41-50, and App.handleWordsAdded (part_002,
\* lines 12-14): a batch has resolved and onWordsAdded queues
\* setRefreshKey(prev => prev + 1)
OnWordsAdded ==
  /\ ~Settled
  /\ queue' = Append(queue, Call("refreshKey", Null, ""))
  /\ UNCHANGED <<table, batches, allWords, upd, byId, now, ticks, tokIn, tokOut, stIn, stOut,
                 view, runs, refreshKey, fetches, due, aside>>

\* fetchWords, line 78: the getAllWords call of fetchWords call f returns what
\* the store has just answered
ListAnswered(f) ==
  /\ fetches[f].pc = "await"
  /\ fetches' = [fetches EXCEPT ![f].pc = "answered", ![f].answer = allWords']

\* fetchWords, lines 78-85, the continuation of call f: setWords with the
\* array of objects getAllWords returned to it, then setLoading(false) (the catch cannot be
\* entered: getAllWords does not throw), whatever another fetchWords call
\* has set or still awaits
ShowWords(f) ==
  /\ fetches[f].pc = "answered"
  /\ Settled
  /\ fetches' = [fetches EXCEPT ![f].pc = "done", ![f].answer = Null]
  /\ queue' = Enqueue(Held(view, refreshKey), queue,
                      <<Call("words", Objects(Val(fetches[f].answer).data, "fetchWords", f), ""),
                        Call("loading", FALSE, "")>>)
  /\ UNCHANGED <<table, batches, allWords, upd, byId, now, ticks, tokIn, tokOut,
                 stIn, stOut, view, runs, refreshKey, due, aside>>

----------------------------------------------------------------------------
(* The clock *)

\* a millisecond, the resolution of Date, or a whole maximum age
TickSteps == {1, DefaultMaxAgeHours * MsPerHour}

Tick(d) ==
  /\ ticks < MaxTicks
  /\ now' = now + d
  /\ ticks' = ticks + 1
  /\ UNCHANGED <<table, batches, allWords, upd, byId, tokIn, tokOut, stIn, stOut, ui, aside>>

----------------------------------------------------------------------------
(* The components before anything has happened *)

\* WordList as it mounts: useState([]), useState(true), useState(null) twice,
\* useState(false); the modal is not rendered.  The effect of lines 89-91
\* has started the first fetchWords call
Mounting ==
  [words |-> <<>>, loading |-> TRUE, error |-> Null,
   selectedWord |-> Null, isModalOpen |-> FALSE,
   mount |-> 0, currentWord |-> Null, isLoading |-> FALSE, modalError |-> Null]

\* no fetchMultipleWordDetails call
NoMulti == [words |-> <<>>, delayMs |-> 0, pc |-> "idle", index |-> 0,
            results |-> <<>>, sent |-> <<>>]

\* no fetchWordDetails call
NoFetch == [word |-> <<>>, response |-> TransportError]

----------------------------------------------------------------------------
(* The system *)

Cat == <<"c","a","t">>
Dog == <<"d","o","g">>
Owl == <<"o","w","l">>
Emu == <<"e","m","u">>

\* The table outlives the page: the application starts on whatever earlier
\* sessions left in it.  Either nothing, or three words ingested 3, 7 and 1
\* times, the first of them enriched at time 0.
EmptyTable == <<>>
UsedTable ==
  <<ApplyDetails(NewRow(1, Cat, 3, 0), DetailsA, 0),
    NewRow(2, Owl, 7, 0),
    NewRow(3, Emu, 1, 0)>>
InitialTables == {EmptyTable, UsedTable}

\* the page has just been loaded on table t
Start(t) ==
  /\ table = t
  /\ batches = <<>>
  /\ allWords = Null
  /\ upd = <<>>
  /\ byId = Null
  /\ now = 0
  /\ ticks = 0
  /\ tokIn = <<>>
  /\ tokOut = Null
  /\ stIn = [lastFetchedAt |-> Null, maxAgeHours |-> Null, clock |-> 0]
  /\ stOut = Null
  /\ view = Mounting
  /\ runs = <<>>
  /\ refreshKey = 0
  /\ fetches = <<NewFetch>>
  /\ queue = <<>>
  /\ due = NoneDue
  /\ multi = NoMulti
  /\ fetchIn = NoFetch
  /\ fetchOut = Null

Init == \E t \in InitialTables : Start(t)

Ingest(limit, texts) ==
  \/ \E text \in texts : ProcessWords(text, limit)
  \/ \E b \in 1..Len(batches) : \E i \in 1..Len(batches[b].calls) : SelectWord(b, i)
  \/ \E b \in 1..Len(batches) : \E i \in 1..Len(batches[b].calls) : UpdateFrequency(b, i)
  \/ \E b \in 1..Len(batches) : \E i \in 1..Len(batches[b].calls) : InsertWord(b, i)
  \/ \E b \in 1..Len(batches) : \E i \in 1..Len(batches[b].calls) : StoreError(b, i)
  \/ \E b \in 1..Len(batches) : AwaitAll(b)

KnownIds == {UnknownId} \cup {table[j].id : j \in 1..Len(table)}

\* ingestion alone, on the used table: "cat" is stored, "dog" is not
InitIngest == Init /\ table = UsedTable

NextIngest == Ingest(MaxBatches, SubmitTexts)

SpecIngest == InitIngest /\ [][NextIngest]_vars

\* a one-word text submitted again and again before the earlier submissions
\* are through: overlapping calls of addOrUpdateWord on one word, "cat",
\* which is stored, or "dog", which is not
NextOverlap == Ingest(MaxOverlap, {CatCatCat, Dog})

SpecOverlap == InitIngest /\ [][NextOverlap]_vars

\* ingestion and the word list
NextList ==
  \/ Ingest(MaxListBatches, SubmitTexts)
  \/ GetAllWords /\ UNCHANGED fetches
  \/ GetAllWordsError /\ UNCHANGED fetches

SpecList == Init /\ [][NextList]_vars

\* the lookup service's entry for a word, at one time and at another
EntryA ==
  [phonetic |-> Null,
   phonetics |-> Some(<<[text |-> Some("/a/"), audio |-> Some("a.mp3")]>>),
   meanings |-> Some(<<Meaning("noun", 1, {1})>>)]
EntryB ==
  [phonetic |-> Some("/b/"), phonetics |-> Null,
   meanings |-> Some(<<Meaning("verb", 2, {})>>)]

\* what the lookup service may answer to a run of the enrichment flow
LookupAnswers ==
  {OkResponse(Some(<<EntryA>>)), OkResponse(Some(<<EntryB>>)),
   StatusResponse(404), StatusResponse(500)}

\* more than the default maximum age: 169 hours
ViewTickSteps == {(DefaultMaxAgeHours + 1) * MsPerHour}

\* no run of the enrichment flow is under way and React has nothing left to
\* do: no request stays in flight for a week, and no render waits for one
AtRest ==
  /\ \A r \in 1..Len(runs) : runs[r].pc = "done"
  /\ queue = <<>>
  /\ due = NoneDue

\* the word list and the detail view over the store and the lookup service
Views(answers) ==
  \/ \E f \in 1..Len(fetches) : GetAllWords /\ ListAnswered(f)
  \/ \E f \in 1..Len(fetches) : GetAllWordsError /\ ListAnswered(f)
  \/ \E f \in 1..Len(fetches) : ShowWords(f)
  \/ \E j \in 1..Len(view.words) : HandleWordClick(j)
  \/ HandleModalClose
  \/ Refresh
  \/ Render
  \/ RunEffects
  \/ \E r \in 1..Len(runs) : \E response \in answers : LookupReturns(r, response)
  \/ \E k \in 1..Len(upd) : ApplyUpdate(k)
  \/ \E k \in 1..Len(upd) : UpdateError(k)
  \/ \E r \in 1..Len(runs) : UpdateReturns(r)

\* the views alone, as time passes
NextView ==
  \/ Views(LookupAnswers)
  \/ \E d \in ViewTickSteps : AtRest /\ Tick(d)

\* the views are followed on a table of two words, "cat" with details and
\* "owl" without
ViewTable == SubSeq(UsedTable, 1, 2)

InitView == Start(ViewTable)

SpecView == InitView /\ [][NextView]_vars

\* the answers of the lookup service while words are being submitted
AppAnswers == {OkResponse(Some(<<EntryA>>)), StatusResponse(404)}

\* the application is followed on a table of one word, "owl" without
\* details
AppTable == <<NewRow(1, Owl, 7, 0)>>

InitApp == Start(AppTable)

\* the application: the input box, the word list and the detail view, on a
\* store that answers every request: a new word, "dog", is submitted while
\* the views are in use
Next ==
  \/ ProcessWords(Dog, MaxViewBatches)
  \/ \E b \in 1..Len(batches) : \E i \in 1..Len(batches[b].calls) : SelectWord(b, i)
  \/ \E b \in 1..Len(batches) : \E i \in 1..Len(batches[b].calls) : InsertWord(b, i)
  \/ \E b \in 1..Len(batches) : AwaitAll(b)
  \/ OnWordsAdded
  \/ \E f \in 1..Len(fetches) : GetAllWords /\ ListAnswered(f)
  \/ \E f \in 1..Len(fetches) : ShowWords(f)
  \/ \E j \in 1..Len(view.words) : HandleWordClick(j)
  \/ HandleModalClose
  \/ Refresh
  \/ Render
  \/ RunEffects
  \/ \E r \in 1..Len(runs) : \E response \in AppAnswers : LookupReturns(r, response)
  \/ \E k \in 1..Len(upd) : ApplyUpdate(k)
  \/ \E r \in 1..Len(runs) : UpdateReturns(r)

Spec == InitApp /\ [][Next]_vars

\* the detail operations on the rows earlier sessions left
NextDetails ==
  \/ \E id \in KnownIds : \E details \in DetailPayloads : UpdateWordDetails(id, details)
  \/ \E k \in 1..Len(upd) : ApplyUpdate(k)
  \/ \E k \in 1..Len(upd) : UpdateError(k)
  \/ \E id \in KnownIds : GetWordById(id)
  \/ \E id \in KnownIds : GetWordByIdError(id)
  \/ \E d \in TickSteps : Tick(d)

SpecDetails == Init /\ [][NextDetails]_vars

\* every writer of the table together, on the used table: ingestion of
\* "Cat dog" (an increment and a creation), and updateWordDetails, with a
\* full payload or a partial one, for a word that has details ("cat"), one
\* that has none ("owl") and the one ingestion creates ("dog")
StoreIds == {table[j].id : j \in {i \in 1..Len(table) : table[i].word \in {Cat, Owl, Dog}}}

NextStore ==
  \/ Ingest(MaxViewBatches, {CatDog})
  \/ \E id \in StoreIds : \E details \in {DetailsB, OnlyExamples} : UpdateWordDetails(id, details)
  \/ \E k \in 1..Len(upd) : ApplyUpdate(k)
  \/ \E k \in 1..Len(upd) : UpdateError(k)

SpecStore == InitIngest /\ [][NextStore]_vars

----------------------------------------------------------------------------
(* The tokenizer and the staleness check on their own *)

Idle ==
  /\ table = EmptyTable
  /\ batches = <<>>
  /\ allWords = Null
  /\ upd = <<>>
  /\ byId = Null
  /\ now = 0
  /\ ticks = 0
  /\ view = Mounting
  /\ runs = <<>>
  /\ refreshKey = 0
  /\ fetches = <<NewFetch>>
  /\ queue = <<>>
  /\ due = NoneDue

\* a letter, a capital, a capital of Latin-1, the two characters beyond
\* Latin-1 that lower to a letter, two kinds of white space, a digit
TokChars == {"a", "B", "É", KelvinSign, CapitalIDot, " ", "\f", "1"}

\* "Hello, World! 123 a an"
HelloWorld ==
  <<"H","e","l","l","o",","," ","W","o","r","l","d","!"," ",
    "1","2","3"," ","a"," ","a","n">>

Texts == UNION {[1..k -> TokChars] : k \in 0..MaxLen} \cup {HelloWorld}

InitTokenizer ==
  /\ Idle
  /\ tokIn \in Texts
  /\ tokOut = Null
  /\ stIn = [lastFetchedAt |-> Null, maxAgeHours |-> Null, clock |-> 0]
  /\ stOut = Null
  /\ multi = NoMulti
  /\ fetchIn = NoFetch
  /\ fetchOut = Null

RunTokenizer ==
  /\ tokOut = Null
  /\ tokOut' = Some(Tokenize(tokIn))
  /\ UNCHANGED <<table, batches, allWords, upd, byId, now, ticks, tokIn, stIn, stOut, ui, aside>>

NextTokenizer == RunTokenizer

SpecTokenizer == InitTokenizer /\ [][NextTokenizer]_vars

StaleTimes ==
  {0, 1, MsPerHour, DefaultMaxAgeHours * MsPerHour - 1, DefaultMaxAgeHours * MsPerHour,
   DefaultMaxAgeHours * MsPerHour + 1, (DefaultMaxAgeHours + 1) * MsPerHour}

StaleAges == {Null, Some(0), Some(1), Some(DefaultMaxAgeHours)}

InitStaleness ==
  /\ Idle
  /\ tokIn = <<>>
  /\ tokOut = Null
  /\ stIn \in [lastFetchedAt : {Null} \cup {Some(t) : t \in StaleTimes},
               maxAgeHours : StaleAges, clock : StaleTimes]
  /\ stOut = Null
  /\ multi = NoMulti
  /\ fetchIn = NoFetch
  /\ fetchOut = Null

RunStaleness ==
  /\ stOut = Null
  /\ stOut' = Some(ShouldUpdateWordDetails(stIn.lastFetchedAt, stIn.maxAgeHours, stIn.clock))
  /\ UNCHANGED <<table, batches, allWords, upd, byId, now, ticks, tokIn, tokOut, stIn, ui, aside>>

NextStaleness == RunStaleness

SpecStaleness == InitStaleness /\ [][NextStaleness]_vars

----------------------------------------------------------------------------
(* fetchWordDetails on its own: the answers of the lookup service *)

TopPhonetics == {Null, Some(""), Some("/top/")}

PhoneticLists ==
  {Null,
   Some(<<>>),
   Some(<<[text |-> Null, audio |-> Some("a.mp3")]>>),
   Some(<<[text |-> Some(""), audio |-> Null],
          [text |-> Some("/b/"), audio |-> Some(" \f")]>>),
   Some(<<[text |-> Some("/c/"), audio |-> Some("c.mp3")],
          [text |-> Null, audio |-> Null],
          [text |-> Some("/d/"), audio |-> Null],
          [text |-> Some("/e/"), audio |-> Some("")]>>)}

MeaningLists ==
  {Null,
   Some(<<>>),
   Some(<<Meaning("noun", 1, {})>>),
   Some(<<[partOfSpeech |-> "noun",
           definitions |-> <<[definition |-> "noun 1", example |-> Some("")]>>]>>),
   Some(<<Meaning("noun", 4, {1, 4}), Meaning("verb", 2, {2})>>),
   Some(<<Meaning("noun", 4, 1..4), Meaning("verb", 4, 1..4),
          Meaning("adjective", 4, 1..4), Meaning("adverb", 4, 1..4)>>)}

Entries == [phonetic : TopPhonetics, phonetics : PhoneticLists, meanings : MeaningLists]

Responses ==
  {OkResponse(Some(<<e>>)) : e \in Entries}
    \cup {OkResponse(Some(<<>>)), OkResponse(Null), StatusResponse(404),
          StatusResponse(429), StatusResponse(500), TransportError}

InitFetcher ==
  /\ Idle
  /\ tokIn = <<>>
  /\ tokOut = Null
  /\ stIn = [lastFetchedAt |-> Null, maxAgeHours |-> Null, clock |-> 0]
  /\ stOut = Null
  /\ multi = NoMulti
  /\ fetchIn \in [word : {Cat, Dog}, response : Responses]
  /\ fetchOut = Null

RunFetcher ==
  /\ fetchOut = Null
  /\ fetchOut' = Some(FetchWordDetails(fetchIn.word, fetchIn.response))
  /\ UNCHANGED <<table, batches, allWords, upd, byId, now, ticks, tokIn, tokOut, stIn, stOut,
                 ui, multi, fetchIn>>

NextFetcher == RunFetcher

SpecFetcher == InitFetcher /\ [][NextFetcher]_vars

----------------------------------------------------------------------------
(* fetchMultipleWordDetails on its own (dictionaryApi.ts, lines 162-185).    *)
(* multi.pc is the position in the loop: "next" at the head of the for,      *)
(* "fetch" awaiting fetchWordDetails, "delay" awaiting the timer, "returned". *)
(* multi.index counts the iterations finished.  multi.sent is the history of  *)
(* the lookups: when each was issued, what the service answered, what         *)
(* fetchWordDetails returned and when, and the timer awaited after it.        *)

\* line 164: delayMs: number = 100
DefaultDelayMs == 100
DelayMs(given) == IF IsNull(given) THEN DefaultDelayMs ELSE Val(given)

\* line 172: results.set(word, details), on a Map kept as the sequence of
\* its entries in insertion order
MapSet(results, word, details) ==
  IF \E i \in 1..Len(results) : results[i].word = word
  THEN [i \in 1..Len(results) |->
          IF results[i].word = word THEN [word |-> word, details |-> details]
          ELSE results[i]]
  ELSE Append(results, [word |-> word, details |-> details])

ContinueMutant(delayMs, got) == "next"
\* lines 175-181: after the lookup the timer is awaited when delayMs > 0; a
\* throw goes to the catch, past the timer
Continue(delayMs, got) ==
  IF ~got.throws /\ delayMs > 0 THEN "delay" ELSE "next"

\* lines 168-170: the loop takes the next word and calls fetchWordDetails
IssueLookup ==
  /\ multi.pc = "next"
  /\ multi.index < Len(multi.words)
  /\ multi' = [multi EXCEPT
                 !.pc = "fetch",
                 !.sent = Append(@, [word |-> multi.words[multi.index + 1], at |-> now,
                                     settled |-> FALSE, response |-> TransportError,
                                     details |-> Null, settledAt |-> 0, timer |-> Null])]
  /\ UNCHANGED <<table, batches, allWords, upd, byId, now, ticks, tokIn, tokOut,
                 stIn, stOut, ui, fetchIn, fetchOut>>

\* how long the lookup service takes to answer, on the clock: less than a
\* millisecond, or longer than the longest delay
LookupTimes == {0, 300}

\* lines 170-181: fetchWordDetails settles, when the answer has come; details
\* go into the map, null does not; line 177: setTimeout(resolve, delayMs)
LookupSettles(response, took) ==
  LET word == multi.words[multi.index + 1]
      got == FetchWordDetails(word, response)
      details == IF got.throws THEN Null ELSE got.value
      next == Continue(multi.delayMs, got)
      timer == [ms |-> multi.delayMs, setAt |-> now + took, fired |-> FALSE, firedAt |-> 0]
  IN  /\ multi.pc = "fetch"
      /\ now' = now + took
      /\ multi' = [multi EXCEPT
                     !.pc = next,
                     !.index = IF next = "next" THEN @ + 1 ELSE @,
                     !.results = IF ~IsNull(details) THEN MapSet(@, word, Val(details)) ELSE @,
                     !.sent[Len(multi.sent)] =
                        [@ EXCEPT !.settled = TRUE, !.response = response,
                                  !.details = details, !.settledAt = now + took,
                                  !.timer = IF next = "delay" THEN Some(timer) ELSE Null]]
      /\ UNCHANGED <<table, batches, allWords, upd, byId, ticks, tokIn, tokOut,
                     stIn, stOut, ui, fetchIn, fetchOut>>

\* when the platform fires a timer, as against the delay asked for: a
\* reading of the clock early, on time, or late by more than the default
\* delay
TimerSlack == {0 - 1, 0, 150}

\* line 177: the timer fires and the promise resolves
DelayElapsed(slack) ==
  /\ multi.pc = "delay"
  /\ now' = now + multi.delayMs + slack
  /\ multi' = [multi EXCEPT
                 !.pc = "next", !.index = @ + 1,
                 !.sent[Len(multi.sent)].timer =
                    Some([Val(@) EXCEPT !.fired = TRUE, !.firedAt = now + multi.delayMs + slack])]
  /\ UNCHANGED <<table, batches, allWords, upd, byId, ticks, tokIn, tokOut,
                 stIn, stOut, ui, fetchIn, fetchOut>>

\* line 184: no word is left, the map is returned
ReturnResults ==
  /\ multi.pc = "next"
  /\ multi.index = Len(multi.words)
  /\ multi' = [multi EXCEPT !.pc = "returned"]
  /\ UNCHANGED <<table, batches, allWords, upd, byId, now, ticks, tokIn, tokOut,
                 stIn, stOut, ui, fetchIn, fetchOut>>

\* the lists of at most n of the words "cat" and "dog", a word twice included
RECURSIVE WordLists(_)
WordLists(n) ==
  IF n = 0 THEN {<<>>}
  ELSE WordLists(n - 1)
       \cup {Append(ws, w) : ws \in {l \in WordLists(n - 1) : Len(l) = n - 1}, w \in {Cat, Dog}}

\* delayMs left out, zero, negative, and a quarter of a second
Delays == {Null, Some(0), Some(0 - 1), Some(250)}

\* an entry, another, an empty list of entries, not found, a failure, no answer
MultiAnswers ==
  {OkResponse(Some(<<EntryA>>)), OkResponse(Some(<<EntryB>>)), OkResponse(Some(<<>>)),
   StatusResponse(404), StatusResponse(500), TransportError}

InitMultiple ==
  /\ Idle
  /\ tokIn = <<>>
  /\ tokOut = Null
  /\ stIn = [lastFetchedAt |-> Null, maxAgeHours |-> Null, clock |-> 0]
  /\ stOut = Null
  /\ fetchIn = NoFetch
  /\ fetchOut = Null
  /\ \E ws \in WordLists(MaxWords) : \E d \in Delays :
       multi = [NoMulti EXCEPT !.words = ws, !.delayMs = DelayMs(d), !.pc = "next"]

NextMultiple ==
  \/ IssueLookup
  \/ \E response \in MultiAnswers : \E took \in LookupTimes : LookupSettles(response, took)
  \/ \E slack \in TimerSlack : DelayElapsed(slack)
  \/ ReturnResults

SpecMultiple == InitMultiple /\ [][NextMultiple]_vars

----------------------------------------------------------------------------
(* Properties of ingestion, checked under SpecIngest *)

\* the calls of addOrUpdateWord made so far, as <<batch, position>>
Calls == UNION {{<<b, i>> : i \in 1..Len(batches[b].calls)} : b \in 1..Len(batches)}
CallOf(c) == batches[c[1]].calls[c[2]]
CallsFor(w) == {c \in Calls : CallOf(c).word = w}

\* the batch bt ran alone and every one of its calls returned a record
Undisturbed(bt) == ~bt.ov /\ \A i \in 1..Len(bt.calls) : ~IsNull(bt.calls[i].result)

\* the distinct lowercased words of the batch's input
DistinctWords(bt) == {ToLowerCase(bt.words[i]) : i \in 1..Len(bt.words)}

\* C1: a batch that ran with no other batch overlapping it and with no store
\* error has, when it resolves, made one call per distinct lowercased word of
\* its input and left each such word at its frequency from before the batch
\* plus 1 (1 for a word that was absent), however often the word occurs in the
\* input; and when the next batch carries the same input and also runs
\* undisturbed, each word ends 2 above its frequency from before the first.
C1_OneIncrementPerDistinctWord ==
  [][\A b \in 1..Len(batches) :
       (batches[b].status = "running" /\ batches'[b].status = "done"
          /\ Undisturbed(batches'[b]))
       => LET bt == batches'[b]
          IN  /\ Len(bt.calls) = Cardinality(DistinctWords(bt))
              /\ {bt.calls[i].word : i \in 1..Len(bt.calls)} = DistinctWords(bt)
              /\ \A i \in 1..Len(bt.calls) :
                   /\ FrequencyOf(table', bt.calls[i].word) = bt.calls[i].pre + 1
                   /\ Val(bt.calls[i].result).frequency = bt.calls[i].pre + 1
              /\ (b > 1 /\ Undisturbed(batches'[b - 1]) /\ batches'[b - 1].words = bt.words)
                 => \A i \in 1..Len(bt.calls) :
                      FrequencyOf(table', bt.calls[i].word) = batches'[b - 1].calls[i].pre + 2
     ]_vars

\* "cat cat cat" was submitted twice in succession with "cat" stored at 3:
\* both batches ran undisturbed, each made one call, and "cat" stands at 5
C1_Witness ==
  /\ Len(batches) = 2
  /\ \A b \in 1..2 : /\ batches[b].words = <<Cat, Cat, Cat>>
                     /\ batches[b].status = "done"
                     /\ Undisturbed(batches[b])
                     /\ Len(batches[b].calls) = 1
  /\ batches[1].calls[1].pre = 3
  /\ FrequencyOf(table, Cat) = 5

\* the words calls have been made for
CalledWords == {CallOf(c).word : c \in Calls}

\* C2: two calls on the same stored word that both read frequency f and both
\* returned a record, with no third call on that word, leave the stored
\* frequency at f + 1: one of the two increments is lost.
C2_LostIncrement ==
  \A w \in CalledWords :
    LET cs == CallsFor(w)
    IN  (/\ Cardinality(cs) = 2
         /\ \A c \in cs : /\ CallOf(c).pc = "done"
                          /\ ~IsNull(CallOf(c).existing)
                          /\ ~IsNull(CallOf(c).result)
         /\ \A c1, c2 \in cs :
              Val(CallOf(c1).existing).frequency = Val(CallOf(c2).existing).frequency)
        => \A c \in cs : FrequencyOf(table, w) = Val(CallOf(c).existing).frequency + 1

\* two overlapping calls on "cat", stored with frequency 3: both read 3, both
\* return a record, and the table holds 4
C2_Witness ==
  /\ Len(batches) = 2
  /\ \A b \in 1..2 : /\ batches[b].calls[1].word = Cat
                     /\ batches[b].calls[1].pc = "done"
                     /\ batches[b].calls[1].ov
                     /\ batches[b].calls[1].existing # Null
                     /\ Val(batches[b].calls[1].existing).frequency = 3
                     /\ batches[b].calls[1].result # Null
                     /\ Len(batches[b].calls) = 1
  /\ FrequencyOf(table, Cat) = 4

\* C3: no two rows carry the same word; and of two calls on the same word that
\* both found it absent, at most one returns a record: the other's insert is
\* refused and the call returns null.
C3_OneRowPerWord ==
  /\ \A j, k \in 1..Len(table) : table[j].word = table[k].word => j = k
  /\ \A w \in CalledWords :
       \A c1, c2 \in CallsFor(w) :
         (/\ c1 # c2
          /\ CallOf(c1).pc = "done" /\ CallOf(c2).pc = "done"
          /\ IsNull(CallOf(c1).existing) /\ IsNull(CallOf(c2).existing))
         => /\ IsNull(CallOf(c1).result) \/ IsNull(CallOf(c2).result)
            /\ CallOf(c1).error = Some(UniqueViolation) => IsNull(CallOf(c1).result)

\* two calls on "dog" both found it absent; one inserted it, the other was
\* refused by the unique constraint and returned null; one row holds "dog"
C3_Witness ==
  \E c1, c2 \in Calls :
    /\ CallOf(c1).word = Dog /\ CallOf(c2).word = Dog
    /\ CallOf(c1).pc = "done" /\ CallOf(c2).pc = "done"
    /\ IsNull(CallOf(c1).existing) /\ IsNull(CallOf(c2).existing)
    /\ ~IsNull(CallOf(c1).result) /\ Val(CallOf(c1).result).frequency = 1
    /\ IsNull(CallOf(c2).result) /\ CallOf(c2).error = Some(UniqueViolation)
    /\ Cardinality(RowsByWord(table, Dog)) = 1

\* the least of a non-empty set of numbers
Least(S) == CHOOSE x \in S : \A y \in S : x <= y

\* C4: when the calls made for a word have all returned a record and none
\* overlapped another call for that word, the word's frequency is its
\* frequency before the first of them plus their number (so k for a word that
\* was absent), the call that found it absent returned frequency 1, and every
\* call returned the frequency it found plus 1.
C4_SequentialCallsCount ==
  \A w \in CalledWords :
    (/\ CallsFor(w) # {}
     /\ \A c \in CallsFor(w) : /\ CallOf(c).pc = "done"
                               /\ ~CallOf(c).ov
                               /\ ~IsNull(CallOf(c).result))
    => /\ FrequencyOf(table, w) =
            Least({CallOf(c).pre : c \in CallsFor(w)}) + Cardinality(CallsFor(w))
       /\ \A c \in CallsFor(w) :
            /\ Val(CallOf(c).result).frequency = CallOf(c).pre + 1
            /\ CallOf(c).pre = 0 => Val(CallOf(c).result).frequency = 1

\* two calls on "dog", one after the other, on a table without it: the first
\* returned frequency 1, and the record stands at 2
C4_Witness ==
  /\ Cardinality(CallsFor(Dog)) = 2
  /\ \A c \in CallsFor(Dog) : CallOf(c).pc = "done" /\ ~CallOf(c).ov /\ ~IsNull(CallOf(c).result)
  /\ \E c \in CallsFor(Dog) : CallOf(c).pre = 0 /\ Val(CallOf(c).result).frequency = 1
  /\ FrequencyOf(table, Dog) = 2

\* C5: a batch that has resolved has every one of its calls returned; success
\* and failed together hold each distinct lowercased input word exactly once,
\* success as the record a call returned and failed as the word; and every
\* word in success has its row in the table, whatever became of the others.
C5_PartitionAfterAllSettle ==
  \A b \in 1..Len(batches) :
    batches[b].status = "done"
    => LET bt == batches[b]
           ok == {bt.success[i].word : i \in 1..Len(bt.success)}
           ko == Range(bt.failed)
       IN  /\ \A i \in 1..Len(bt.calls) : bt.calls[i].pc = "done"
           /\ ok \cup ko = DistinctWords(bt)
           /\ ok \cap ko = {}
           /\ Len(bt.success) + Len(bt.failed) = Cardinality(DistinctWords(bt))
           /\ \A i \in 1..Len(bt.calls) :
                IF IsNull(bt.calls[i].result)
                THEN bt.calls[i].word \in ko
                ELSE Val(bt.calls[i].result) \in Range(bt.success)
           /\ \A r \in Range(bt.success) :
                /\ RowsByWord(table, r.word) # {}
                /\ \A j \in RowsByWord(table, r.word) : table[j].id = r.id

\* "Cat dog": the upsert of "cat" failed, "dog" was stored all the same, and
\* the batch resolved with dog in success and cat in failed
C5_Witness ==
  \E b \in 1..Len(batches) :
    /\ batches[b].status = "done"
    /\ ~batches[b].ov
    /\ batches[b].failed = <<Cat>>
    /\ Len(batches[b].success) = 1
    /\ batches[b].success[1].word = Dog
    /\ batches[b].success[1].frequency = 1
    /\ FrequencyOf(table, Dog) = 1
    /\ FrequencyOf(table, Cat) = 3

----------------------------------------------------------------------------
(* The tokenizer, checked under SpecTokenizer *)

RECURSIVE ScanWords(_, _, _)
\* the words of a text read in one pass, left to right: letters gather, in
\* lower case, into the current word, other characters are passed over, and
\* white space ends the word, which counts when it has two letters or more
ScanWords(text, i, cur) ==
  LET done == IF Len(cur) >= 2 THEN <<cur>> ELSE <<>>
  IN  IF i > Len(text) THEN done
      ELSE IF text[i] \in WhiteSpace THEN done \o ScanWords(text, i + 1, <<>>)
      ELSE ScanWords(text, i + 1, cur \o SelectSeqBy(ToLowerChar(text[i]), LowerLetters))

\* C6: the tokens of a text are its whitespace-separated pieces, lowercased
\* and stripped of everything but a-z, without the pieces left with fewer than
\* two letters, in their order in the text; so every token is made of lowercase
\* letters only and has at least two of them; and "Hello, World! 123 a an"
\* gives hello, world, an.
C6_TokenizerOutput ==
  tokOut # Null
  => /\ Val(tokOut) = ScanWords(tokIn, 1, <<>>)
     /\ \A k \in 1..Len(Val(tokOut)) :
          /\ Len(Val(tokOut)[k]) >= 2
          /\ \A j \in 1..Len(Val(tokOut)[k]) : Val(tokOut)[k][j] \in LowerLetters
     /\ tokIn = HelloWorld
        => Val(tokOut) = << <<"h","e","l","l","o">>, <<"w","o","r","l","d">>, <<"a","n">> >>

\* the tokenizer ran on "Hello, World! 123 a an" and gave hello, world, an
C6_Witness ==
  /\ tokIn = HelloWorld
  /\ tokOut = Some(<< <<"h","e","l","l","o">>, <<"w","o","r","l","d">>, <<"a","n">> >>)

----------------------------------------------------------------------------
(* The word list, checked under SpecList *)

Frequencies(rows) == [i \in 1..Len(rows) |-> rows[i].frequency]

\* C7 as stated: getAllWords returns each row of the table exactly once, each
\* adjacent pair in the result having the earlier frequency greater than or
\* equal to the later; rows stored with frequencies 3, 7, 1 come back as
\* 7, 3, 1.
C7_ListByFrequencyDescending ==
  allWords # Null
  => LET data == Val(allWords).data
         stored == Val(allWords).of
     IN  /\ Len(data) = Len(stored)
         /\ \A j \in 1..Len(stored) :
              Cardinality({i \in 1..Len(data) : data[i] = stored[j]}) = 1
         /\ \A i \in 1..Len(data) - 1 : data[i].frequency >= data[i + 1].frequency
         /\ Frequencies(stored) = <<3, 7, 1>> => Frequencies(data) = <<7, 3, 1>>

----------------------------------------------------------------------------
(* The detail operations, checked under SpecDetails *)

\* the updateWordDetails calls that returned a record
Updated == {k \in 1..Len(upd) : upd[k].pc = "done" /\ ~IsNull(upd[k].result)}

\* C8 as stated: after a successful updateWordDetails the four detail fields
\* of the record are those of the payload, a field the payload leaves out
\* being absent in the record, and last_fetched_at is the time of the call.
C8_ReplacedWholesale ==
  \A k \in Updated :
    LET r == Val(upd[k].result)
        d == upd[k].details
    IN  /\ r.pronunciation = d.pronunciation
        /\ r.pronunciations = d.pronunciations
        /\ r.definitions = d.definitions
        /\ r.examples = d.examples
        /\ r.last_fetched_at = Some(upd[k].stamp)

\* C9: an updateWordDetails whose id matches no row, and a getWordById whose id
\* matches no row, return null and leave the table as it was.
C9_UnknownIdChangesNothing ==
  [][/\ \A k \in 1..Len(upd) :
          (upd[k].pc = "sent" /\ upd'[k].pc = "done" /\ RowsById(table, upd[k].id) = {})
          => (IsNull(upd'[k].result) /\ table' = table)
     /\ (byId' # byId /\ RowsById(table, Val(byId').id) = {})
          => (IsNull(Val(byId').result) /\ table' = table)
    ]_vars

\* on the three stored rows, updateWordDetails and getWordById were called
\* with an id no row has: both found no row and returned null, and the rows
\* are as they were
C9_Witness ==
  /\ \E k \in 1..Len(upd) :
       /\ upd[k].id = UnknownId
       /\ upd[k].pc = "done"
       /\ upd[k].error = Some(NoRow)
       /\ IsNull(upd[k].result)
  /\ byId = Some([id |-> UnknownId, result |-> Null, error |-> Some(NoRow)])
  /\ table = UsedTable

----------------------------------------------------------------------------
(* The staleness check, checked under SpecStaleness *)

\* C10: shouldUpdateWordDetails is true exactly when there is no timestamp or
\* more hours than maxAgeHours (168 when left out) have passed since it: more
\* whole hours, or as many whole hours and a part of one.  It is true without
\* a timestamp, false for the timestamp of now, false at exactly 168 hours and
\* true at 169 hours.
C10_StaleExactlyWhenOlder ==
  stOut # Null
  => LET last == stIn.lastFetchedAt
         maxAge == IF stIn.maxAgeHours = Null THEN 168 ELSE Val(stIn.maxAgeHours)
         elapsed == stIn.clock - Val(last)
         wholeHours == elapsed \div 3600000
         partOfHour == elapsed % 3600000
     IN  /\ Val(stOut) <=> (\/ last = Null
                            \/ wholeHours > maxAge
                            \/ (wholeHours = maxAge /\ partOfHour > 0))
         /\ last = Null => Val(stOut)
         /\ (last = Some(stIn.clock) /\ stIn.maxAgeHours = Null) => ~Val(stOut)
         /\ (last = Some(0) /\ stIn.clock = 168 * 3600000 /\ stIn.maxAgeHours = Null)
            => ~Val(stOut)
         /\ (last = Some(0) /\ stIn.clock = 169 * 3600000 /\ stIn.maxAgeHours = Null)
            => Val(stOut)

\* with the default maximum age, a timestamp exactly 168 hours old was found
\* not stale
C10_Witness ==
  /\ stIn = [lastFetchedAt |-> Some(0), maxAgeHours |-> Null, clock |-> 168 * 3600000]
  /\ stOut = Some(FALSE)

----------------------------------------------------------------------------
(* fetchWordDetails, checked under SpecFetcher *)

\* C11: whenever the lookup service answers 404, fetchWordDetails returns
\* null and does not throw.
C11_NotFoundIsNull ==
  (/\ fetchOut # Null
   /\ ~fetchIn.response.transport
   /\ fetchIn.response.status = 404)
  => (~Val(fetchOut).throws /\ IsNull(Val(fetchOut).value))

\* the service answered the lookup of "cat" with 404 and fetchWordDetails
\* returned null
C11_Witness ==
  /\ fetchIn = [word |-> Cat, response |-> StatusResponse(404)]
  /\ fetchOut = Some([throws |-> FALSE, value |-> Null])

\* C12 as stated: when the answer is a failure (a status other than a
\* success or 404, or no answer at all), the outcome of fetchWordDetails
\* differs from its outcome for a 404.
C12_FailureDistinctFromNotFound ==
  (fetchOut # Null /\ IsFailure(fetchIn.response))
  => Val(fetchOut) # FetchWordDetails(fetchIn.word, StatusResponse(404))

----------------------------------------------------------------------------
(* The detail view and the enrichment flow, checked under SpecView *)

\* the four detail fields of a record, or of a payload
DetailsOf(r) ==
  [pronunciation |-> r.pronunciation, pronunciations |-> r.pronunciations,
   definitions |-> r.definitions, examples |-> r.examples]

NoDetails == [pronunciation |-> Null, pronunciations |-> Null,
              definitions |-> Null, examples |-> Null]

\* the renders on which the second effect of the modal runs in a step: the
\* render whose effects were still due, and the render a handler has made
\* with isOpen changed
Checked ==
  (IF due.auto # "" /\ due'.auto = "" THEN {view} ELSE {})
  \cup (IF view.isModalOpen # view'.isModalOpen THEN {view'} ELSE {})

\* C13 as stated: a lookup is started automatically only when the open
\* detail view checks the record it was opened for (the word clicked) and the
\* four detail fields of that record are all absent and
\* shouldUpdateWordDetails(last_fetched_at) is true; and whenever the open view
\* checks such a record, a lookup is started for it.
C13_AutoFetchOnOpen ==
  [][LET started == {r \in (Len(runs) + 1)..Len(runs') : runs'[r].trigger # "user"}
         Holds(word, row) == word # Null /\ RecordOf(Val(word)) = RecordOf(row)
         Opened(v, row) == v.isModalOpen /\ Holds(v.selectedWord, row)
         Due(row) == /\ DetailsOf(row) = NoDetails
                     /\ ShouldUpdateWordDetails(row.last_fetched_at, Null, now)
     IN  /\ \A r \in started :
               /\ \E v \in Checked : Opened(v, runs'[r].word)
               /\ Due(runs'[r].word)
         /\ \A v \in Checked :
               (v.selectedWord # Null /\ Opened(v, Val(v.selectedWord))
                /\ Holds(v.currentWord, Val(v.selectedWord)) /\ Due(Val(v.selectedWord)))
               => \E r \in started : Holds(v.selectedWord, runs'[r].word)
    ]_vars

\* the lookup service has no entry: status 404, or an empty list of entries
HasNoEntry(response) ==
  /\ ~response.transport
  /\ \/ response.status = 404
     \/ Ok(response) /\ response.body = Some(<<>>)

\* C14 as stated: a run of fetchDetails in which the lookup failed or the
\* store write failed ends with the retryable error reported; no run ends
\* having reported nothing without having updated the record; and the
\* no-details outcome is reported only when the service had no entry.
C14_FailuresReported ==
  \A r \in 1..Len(runs) :
    runs[r].pc = "done"
    => LET run == runs[r]
           lookupFailed == IsFailure(Val(run.response))
           writeFailed == run.upd # 0 /\ IsNull(upd[run.upd].result)
       IN  /\ (lookupFailed \/ writeFailed) => run.report = "error"
           /\ run.report \in {"details", "no details", "error"}
           /\ run.report = "no details" => HasNoEntry(Val(run.response))

ApplyWrites(k) == upd[k].pc = "sent" /\ upd'[k].pc = "done" /\ ~IsNull(upd'[k].result)

\* C15: the four detail fields of a record change only in a step that applies
\* an enrichment write to it, and after such a step they are, all four, the
\* payload of that write; so whatever the interleaving of two runs on one
\* record, its details are entirely the payload written last.
C15_LastWriteWinsWhole ==
  [][\A j \in 1..Len(table) :
       LET applied == {k \in 1..Len(upd) : ApplyWrites(k) /\ upd[k].id = table[j].id}
       IN  IF applied = {} THEN DetailsOf(table'[j]) = DetailsOf(table[j])
           ELSE \A k \in applied : DetailsOf(table'[j]) = upd[k].details
    ]_vars

\* two runs on "owl" overlapped, the service answering them differently: the
\* second started before the first had written, and wrote first; the first
\* wrote last, and the record's details are the first run's payload
C15_Witness ==
  /\ Len(runs) = 2
  /\ \A r \in 1..2 : /\ runs[r].word.word = Owl
                     /\ runs[r].pc = "done"
                     /\ runs[r].report = "details"
  /\ Val(runs[2].stored).last_fetched_at = Null
  /\ upd[runs[1].upd].details # upd[runs[2].upd].details
  /\ DetailsOf(Val(upd[runs[1].upd].before)) = upd[runs[2].upd].details
  /\ DetailsOf(table[2]) = upd[runs[1].upd].details

----------------------------------------------------------------------------
(* The application, checked under Spec and SpecView; the table under SpecStore *)

\* a failed upsert, update or read by id has returned no record
FailuresReturnNull ==
  /\ \A c \in Calls : CallOf(c).error # Null => IsNull(CallOf(c).result)
  /\ \A k \in 1..Len(upd) : upd[k].error # Null => IsNull(upd[k].result)
  /\ (byId # Null /\ Val(byId).error # Null) => IsNull(Val(byId).result)

\* C16 as stated: a store error reaches the caller of every Word Store
\* operation as something a normal result cannot be: a failed upsert, update
\* or read by id returns no record, and a fetchWords call whose getAllWords
\* met a store error sets the error of the list view before it finishes.
C16_StoreErrorsSurface ==
  [][/\ FailuresReturnNull'
     /\ \A f \in 1..Len(fetches) :
          (/\ fetches[f].pc = "answered"
           /\ fetches'[f].pc = "done"
           /\ Val(fetches[f].answer).error)
          => \E i \in 1..Len(queue') : queue'[i].set = "error" /\ queue'[i].value # Null
    ]_vars

\* C17 as stated: a run of the enrichment flow on a record on which an
\* earlier run ended with its details stored was started by the user's
\* refresh or retry, never by the view opening or appearing.
C17_NoLookupOnceEnriched ==
  \A r \in 1..Len(runs) : runs[r].enriched => runs[r].trigger = "user"

\* C18: a record without last_fetched_at has none of the four detail fields.
C18_DetailsOnlyWithStamp ==
  \A j \in 1..Len(table) :
    IsNull(table[j].last_fetched_at) => DetailsOf(table[j]) = NoDetails

\* "dog" was created by ingestion and has neither stamp nor details, "cat" was
\* incremented and keeps its details and its stamp, and "owl" got its details
\* and its stamp from updateWordDetails
C18_Witness ==
  /\ Len(table) = 4
  /\ table[4].word = Dog
  /\ table[4].last_fetched_at = Null
  /\ DetailsOf(table[4]) = NoDetails
  /\ table[1].frequency > 3
  /\ DetailsOf(table[1]) # NoDetails
  /\ \E k \in 1..Len(upd) :
       /\ upd[k].id = 2 /\ upd[k].pc = "done" /\ ~IsNull(upd[k].result)
  /\ table[2].last_fetched_at # Null
  /\ DetailsOf(table[2]) # NoDetails

\* C19 as stated: a run on a record on which an earlier run ended without
\* storing anything (not found, or failed) was started by the user (retry,
\* refresh, or opening the view); and a batch makes one call per distinct
\* word, a failed one included, never a second.
C19_NoAutomaticRetry ==
  /\ \A r \in 1..Len(runs) : runs[r].retried => runs[r].trigger \in {"user", "open"}
  /\ \A b \in 1..Len(batches) : Len(batches[b].calls) = Cardinality(DistinctWords(batches[b]))

----------------------------------------------------------------------------
(* fetchMultipleWordDetails, checked under SpecMultiple *)

\* the lookups of word w that returned details
WithDetails(w) ==
  {k \in 1..Len(multi.sent) :
     /\ multi.sent[k].word = w
     /\ multi.sent[k].settled
     /\ ~IsNull(multi.sent[k].details)}

\* the greatest member of a non-empty set of numbers
Last(ks) == CHOOSE k \in ks : \A o \in ks : o <= k

\* the lookups are issued in list order, at most one is in flight, and each
\* but the last issued has settled before the next was issued
InListOrder ==
  LET sent == multi.sent
  IN  /\ Len(sent) <= Len(multi.words)
      /\ \A k \in 1..Len(sent) : sent[k].word = multi.words[k]
      /\ Cardinality({k \in 1..Len(sent) : ~sent[k].settled}) <= 1
      /\ \A k \in 1..(Len(sent) - 1) : sent[k].settled /\ sent[k + 1].at >= sent[k].settledAt

\* when the call has returned every word of the list was looked up, whatever
\* the earlier lookups gave, and the map holds, once each, exactly the words
\* a lookup returned details for, with the details of the last such lookup
MapOfDetails ==
  LET sent == multi.sent
      results == multi.results
  IN  multi.pc = "returned"
      => /\ Len(sent) = Len(multi.words)
         /\ \A k \in 1..Len(sent) : sent[k].settled
         /\ {results[i].word : i \in 1..Len(results)}
              = {w \in {multi.words[k] : k \in 1..Len(multi.words)} : WithDetails(w) # {}}
         /\ \A i, j \in 1..Len(results) : results[i].word = results[j].word => i = j
         /\ \A i \in 1..Len(results) :
              Some(results[i].details) = sent[Last(WithDetails(results[i].word))].details


----------------------------------------------------------------------------
(* What fetchWordDetails makes of an entry, checked under SpecFetcher *)

\* fetchWordDetails has returned details
GotDetails == fetchOut # Null /\ ~IsNull(Val(fetchOut).value)

\* the details returned, and the entry they were made of
OutDetails == Val(Val(fetchOut).value)
InEntry == Val(fetchIn.response.body)[1]

\* the first three definitions of a meaning group, under its part of speech
FirstThree(meaning) ==
  [k \in 1..(IF Len(meaning.definitions) < 3 THEN Len(meaning.definitions) ELSE 3) |->
     [partOfSpeech |-> meaning.partOfSpeech,
      definition |-> meaning.definitions[k].definition]]

RECURSIVE FirstThreeOfEach(_)
\* those of every group, in the order of the groups
FirstThreeOfEach(meanings) ==
  IF meanings = <<>> THEN <<>>
  ELSE FirstThree(Head(meanings)) \o FirstThreeOfEach(Tail(meanings))

\* C21: the definitions returned are the first 5 of the first 3 definitions
\* of each meaning group, taken in the order of the groups: never more than
\* 5, never more than 3 of one group.
C21_DefinitionsCapped ==
  GotDetails
  => LET meanings == Val(InEntry.meanings)
         all == FirstThreeOfEach(meanings)
         out == OutDetails.definitions
     IN  /\ out = SubSeq(all, 1, IF Len(all) < 5 THEN Len(all) ELSE 5)
         /\ Len(out) <= 5
         /\ \A g \in 1..Len(meanings) :
              Cardinality({i \in 1..Len(out) :
                             out[i].partOfSpeech = meanings[g].partOfSpeech}) <= 3

\* four groups of four definitions gave three of the first group and two of
\* the second
C21_Witness ==
  /\ GotDetails
  /\ Len(Val(InEntry.meanings)) = 4
  /\ \A g \in 1..4 : Len(Val(InEntry.meanings)[g].definitions) = 4
  /\ OutDetails.definitions =
       <<[partOfSpeech |-> "noun", definition |-> "noun 1"],
         [partOfSpeech |-> "noun", definition |-> "noun 2"],
         [partOfSpeech |-> "noun", definition |-> "noun 3"],
         [partOfSpeech |-> "verb", definition |-> "verb 1"],
         [partOfSpeech |-> "verb", definition |-> "verb 2"]>>

RECURSIVE ExamplesOf(_)
\* the example sentences of a list of definitions, in order
ExamplesOf(defs) ==
  IF defs = <<>> THEN <<>>
  ELSE (IF Truthy(Head(defs).example) THEN <<Val(Head(defs).example)>> ELSE <<>>)
       \o ExamplesOf(Tail(defs))

RECURSIVE AllExamples(_)
\* those of every definition of every group, in document order
AllExamples(meanings) ==
  IF meanings = <<>> THEN <<>>
  ELSE ExamplesOf(Head(meanings).definitions) \o AllExamples(Tail(meanings))

\* the text s has the text w in it
Contains(s, w) == \E i \in 1..(Len(s) - Len(w) + 1) : SubSeq(s, i, i + Len(w) - 1) = w

\* C22: the examples returned are the first 3 example sentences of the entry
\* in document order, the definitions past the third of a group included; when
\* the entry has none, they are one sentence that contains the word.  There
\* is always at least one and never more than 3.
C22_ExamplesCapped ==
  GotDetails
  => LET all == AllExamples(Val(InEntry.meanings))
         out == OutDetails.examples
     IN  /\ IF all = <<>>
            THEN Len(out) = 1 /\ Contains(out[1], Join(fetchIn.word))
            ELSE out = SubSeq(all, 1, IF Len(all) < 3 THEN Len(all) ELSE 3)
         /\ Len(out) >= 1
         /\ Len(out) <= 3

\* a group of four definitions, the first and the fourth with an example, and
\* a group of two, the second with an example: the three were returned
C22_Witness ==
  /\ GotDetails
  /\ InEntry.meanings = Some(<<Meaning("noun", 4, {1, 4}), Meaning("verb", 2, {2})>>)
  /\ OutDetails.examples = <<"noun example 1", "noun example 4", "verb example 2">>

\* an audio URL that is there and not blank
NonBlank(audio) ==
  /\ ~IsNull(audio)
  /\ \E i \in 1..Len(Val(audio)) : SubSeq(Val(audio), i, i) \notin WhiteSpace

\* C23: the pronunciations returned are the entries of the phonetic list that
\* have text, each with its audio URL when that is not blank; when there is
\* none, the top-level phonetic field alone; when that is missing too, the
\* placeholder "/word/".  The list is never empty, and the primary
\* pronunciation is not empty and is the text of its first element.
C23_PronunciationFallback ==
  GotDetails
  => LET listed == IF IsNull(InEntry.phonetics) THEN <<>>
                   ELSE SelectSeq(Val(InEntry.phonetics), LAMBDA p : Truthy(p.text))
         out == OutDetails.pronunciations
     IN  /\ IF listed # <<>>
            THEN /\ Len(out) = Len(listed)
                 /\ \A i \in 1..Len(listed) :
                      /\ out[i].text = Val(listed[i].text)
                      /\ out[i].audio = IF NonBlank(listed[i].audio) THEN listed[i].audio
                                        ELSE Null
            ELSE IF Truthy(InEntry.phonetic)
                 THEN out = <<[text |-> Val(InEntry.phonetic), audio |-> Null]>>
                 ELSE out = <<[text |-> "/" \o Join(fetchIn.word) \o "/", audio |-> Null]>>
         /\ out # <<>>
         /\ OutDetails.pronunciation # ""
         /\ OutDetails.pronunciation = out[1].text

\* of four phonetics, one without text, the three with text were returned,
\* the first with its audio, the last without its empty one; the top-level
\* field was passed over
C23_Witness ==
  /\ GotDetails
  /\ InEntry.phonetic = Some("/top/")
  /\ InEntry.phonetics # Null
  /\ Len(Val(InEntry.phonetics)) = 4
  /\ OutDetails.pronunciations =
       <<[text |-> "/c/", audio |-> Some("c.mp3")],
         [text |-> "/d/", audio |-> Null],
         [text |-> "/e/", audio |-> Null]>>
  /\ OutDetails.pronunciation = "/c/"

----------------------------------------------------------------------------
(* Overlapping calls on one word, checked under SpecOverlap *)

\* C24 as stated: from one state to the next the stored frequency of no
\* record decreases, and it is at least 1 in both.
C24_FrequencyNeverDecreases ==
  [][\A j \in 1..Len(table) :
       /\ table[j].frequency >= 1
       /\ table'[j].frequency >= 1
       /\ table'[j].frequency >= table[j].frequency
    ]_vars

----------------------------------------------------------------------------
(* The fields each write touches, checked under SpecStore *)

\* the step in which a call of addOrUpdateWord has its update of the row it
\* read answered with the row
IncrementWrites(b, i) ==
  /\ batches[b].calls[i].pc = "update"
  /\ batches'[b].calls[i].pc = "done"
  /\ ~IsNull(batches'[b].calls[i].result)

\* what addOrUpdateWord leaves alone in a record, and what updateWordDetails
\* leaves alone
BesideFrequency(r) ==
  [id |-> r.id, word |-> r.word, created_at |-> r.created_at,
   details |-> DetailsOf(r), last_fetched_at |-> r.last_fetched_at]
BesideDetails(r) ==
  [id |-> r.id, word |-> r.word, frequency |-> r.frequency, created_at |-> r.created_at]

\* C25: in every step, a record written by addOrUpdateWord's update keeps
\* its id, word, created_at, four detail fields and last_fetched_at; a record
\* written by updateWordDetails keeps its id, word, frequency and created_at;
\* and a record written by neither keeps everything.  So of two writes that
\* overlap, in either order, none undoes the fields of the other.
C25_WritesKeepToTheirFields ==
  [][\A j \in {i \in 1..Len(table) : table'[i] # table[i]} :
       LET incremented ==
             \E b \in 1..Len(batches) : \E i \in 1..Len(batches[b].calls) :
               IncrementWrites(b, i) /\ Val(batches[b].calls[i].existing).id = table[j].id
           enriched == \E k \in 1..Len(upd) : ApplyWrites(k) /\ upd[k].id = table[j].id
       IN  /\ incremented => BesideFrequency(table'[j]) = BesideFrequency(table[j])
           /\ enriched => BesideDetails(table'[j]) = BesideDetails(table[j])
           /\ ~incremented /\ ~enriched => table'[j] = table[j]
    ]_vars

\* a call of addOrUpdateWord read "cat" before updateWordDetails gave it new
\* details, and wrote its frequency after: the record has the frequency
\* incremented and the new details
C25_Witness ==
  /\ \E b \in 1..Len(batches) : \E i \in 1..Len(batches[b].calls) :
       LET c == batches[b].calls[i]
       IN  /\ c.word = Cat
           /\ c.pc = "done"
           /\ ~IsNull(c.result)
           /\ DetailsOf(Val(c.existing)) # DetailsOf(Val(c.result))
  /\ \E k \in 1..Len(upd) :
       /\ upd[k].id = 1
       /\ upd[k].pc = "done"
       /\ ~IsNull(upd[k].result)
       /\ Val(upd[k].result).frequency = 3
       /\ DetailsOf(table[1]) = upd[k].details
  /\ table[1].frequency = 4
  /\ table[1].last_fetched_at # Null

====
